---- MODULE Spec2Model ----
(***************************************************************************)
(* Model of the batching engine of src/batch_processor.py: the Topic       *)
(* Packer (group_questions_by_type_and_topic), the Batch Flow Runner       *)
(* (process_single_batch_flow) and the Pipeline Scheduler                  *)
(* (process_batches_pipeline).                                             *)
(*                                                                         *)
(* Strings are sequences: a topic is a sequence of characters, a model     *)
(* response is a sequence of lexical tokens (delimiter, heading, word,     *)
(* whitespace, JSON object, code fence).  Python lists are sequences,      *)
(* dicts are functions (or sequences of key/value pairs where the          *)
(* insertion order is read).  Python indices are 0-based: original_index   *)
(* of the request at position i of a sequence is i - 1.                    *)
(***************************************************************************)
EXTENDS Integers, Sequences, FiniteSets, TLC

VARIABLES
    questions_config,    \* the caller's request list (dicts, mutated in place)
    core_skill_enabled,  \* general_config['core_skill_enabled']
    pc,                  \* position of process_batches_pipeline
    grouped_questions,   \* result of group_questions_by_type_and_topic
    flow_stage,          \* per BatchKey: position of process_single_batch_flow
    flow_questions,      \* per BatchKey: the batch handed to the flow
    flow_prev_meta,      \* per BatchKey: previous_batch_metadata argument
    raw_result,          \* per BatchKey: result of generate_raw_batch
    split_questions,     \* per BatchKey: result of split_generated_content
    validation_results,  \* per BatchKey: results of the validation calls
    flow_result,         \* per BatchKey: the payload the flow returned
    model_calls,         \* per BatchKey: calls made to run_gemini_async
    seq_pos,             \* sequential mode: (type index, batch index) awaited
    accumulated_metadata,\* sequential mode: accumulator of the current type
    metadata_after,      \* history: accumulator after each merged batch
    pipeline_results,    \* the mapping process_batches_pipeline builds
    regen_pc,            \* position of regenerate_specific_questions_pipeline
    original_config,     \* regeneration: the caller's original request list
    regeneration_map,    \* regeneration: batch key -> in-batch indices
    filtered_config,     \* regeneration: the requests selected for resending
    fixed_results,       \* regeneration: the mapping returned to the caller
    generated_output,    \* the caller's stored output, per BatchKey
    produced_for,        \* history: per BatchKey and question number, the
                         \* original_index of the request the stored text
                         \* was generated for
    norm_pc,             \* position of normalize_llm_output_to_questions
    norm_text,           \* normalizer: the text it is called with
    norm_result          \* normalizer: what the call produced

\* the state of regenerate_specific_questions_pipeline
regen_vars == << regen_pc, original_config, regeneration_map, filtered_config,
                 fixed_results, generated_output, produced_for >>

\* the state of a call of normalize_llm_output_to_questions
norm_vars == << norm_pc, norm_text, norm_result >>

vars == << questions_config, core_skill_enabled, pc, grouped_questions,
           flow_stage, flow_questions, flow_prev_meta, raw_result,
           split_questions, validation_results, flow_result, model_calls,
           seq_pos, accumulated_metadata, metadata_after, pipeline_results,
           regen_vars, norm_vars >>

(***************************************************************************)
(* Bounds of the model.                                                    *)
(***************************************************************************)
\* longest request list given to the packer on its own
MaxQuestions == 8
\* pipeline runs: most requests of the first and of the second type
MaxFirstType == 5
MaxSecondType == 1

\* regeneration: requests of the first topic in the original list
MaxRegenTopic == 4
\* regeneration: the largest in-batch index a map names
MaxIndex == 5
\* normalizer: the most tokens of a text
MaxTextLen == 3

\* src/batch_processor.py:21
DEFAULT_BATCH_SIZE == 4

(***************************************************************************)
(* Generic helpers on sequences.                                           *)
(***************************************************************************)
Range(s) == { s[i] : i \in 1..Len(s) }

SeqsUpTo(S, n) == UNION { [1..m -> S] : m \in 0..n }

Replicate(n, x) == [i \in 1..n |-> x]

Min(a, b) == IF a < b THEN a ELSE b

\* Python s[lo:hi] on a sequence, lo and hi 0-based, hi exclusive, clamped
PySlice(s, lo, hi) == SubSeq(s, lo + 1, Min(hi, Len(s)))

RECURSIVE Dedup(_)
\* the distinct elements of s in first-seen order (dict insertion order)
Dedup(s) ==
    IF s = << >> THEN << >>
    ELSE LET r == Dedup(SubSeq(s, 1, Len(s) - 1))
             x == s[Len(s)]
         IN IF x \in Range(r) THEN r ELSE Append(r, x)

(***************************************************************************)
(* Topic normalisation: " ".join(str(raw_topic).strip().lower().split())   *)
(***************************************************************************)
Lower(c) == CASE c = "A" -> "a" [] c = "B" -> "b" [] c = "U" -> "u" [] OTHER -> c

IsSpace(c) == c = " "

RECURSIVE Collapse(_, _)
\* drops leading whitespace and squeezes inner runs to one space; pending
\* is TRUE when a space is owed before the next word character
Collapse(s, pending) ==
    IF s = << >> THEN << >>
    ELSE IF IsSpace(Head(s))
         THEN Collapse(Tail(s), TRUE)
         ELSE (IF pending THEN << " " >> ELSE << >>)
              \o << Lower(Head(s)) >> \o Collapse(Tail(s), FALSE)

RECURSIVE LStrip(_)
LStrip(s) == IF s # << >> /\ IsSpace(Head(s)) THEN LStrip(Tail(s)) ELSE s

NormalizeTopic(raw) == Collapse(LStrip(raw), FALSE)

Unknown == << "U", "n", "k", "n", "o", "w", "n" >>

\* q.get('topic', '') or 'Unknown', then normalised
TopicKey(q) == NormalizeTopic(IF q.topic = << >> THEN Unknown ELSE q.topic)

\* code point order of the characters that occur
CharRank(c) ==
    CASE c = " " -> 0 [] c = "a" -> 1 [] c = "b" -> 2 [] c = "k" -> 3
      [] c = "n" -> 4 [] c = "o" -> 5 [] c = "u" -> 6 [] c = "w" -> 7
      [] OTHER -> 8

RECURSIVE StrLess(_, _)
\* Python's < on str: lexicographic by code point
StrLess(a, b) ==
    IF b = << >> THEN FALSE
    ELSE IF a = << >> THEN TRUE
    ELSE IF CharRank(Head(a)) # CharRank(Head(b))
         THEN CharRank(Head(a)) < CharRank(Head(b))
         ELSE StrLess(Tail(a), Tail(b))

RECURSIVE SortedStrings(_)
\* sorted(keys)
SortedStrings(S) ==
    IF S = {} THEN << >>
    ELSE LET m == CHOOSE x \in S : \A y \in S \ {x} : StrLess(x, y)
         IN << m >> \o SortedStrings(S \ {m})

(***************************************************************************)
(* Topic Packer: group_questions_by_type_and_topic.                        *)
(***************************************************************************)
\* A type name and a batch key are strings that the code formats and parses
\* around the literal " - Batch ".  Such a string is a sequence of tokens:
\* Name(s) is text that holds no " - Batch ", BatchSuffix(n) is the text
\* " - Batch " followed by the decimal digits of n.
Name(s) == [s |-> s, n |-> 0]

BatchSuffix(n) == [s |-> " - Batch ", n |-> n]

\* the string of a type the caller names
TypeName(s) == << Name(s) >>

NoType == TypeName("<absent>")

\* q_config.get('type', 'MCQ')
QType(q) == IF q.type = NoType THEN TypeName("MCQ") ELSE q.type

\* q_config['original_index'] = idx, for idx, q_config in enumerate(...)
AssignIndices(cfg) ==
    [i \in 1..Len(cfg) |-> [cfg[i] EXCEPT !.original_index = i - 1]]

\* the keys of grouped_by_type, in insertion order
TypeOrder(cfg) == Dedup([i \in 1..Len(cfg) |-> QType(cfg[i])])

\* grouped_by_type[q_type]
OfType(cfg, t) == SelectSeq(cfg, LAMBDA q : QType(q) = t)

\* topic_batch_map[topic]: naive batch index of every request of the topic
TopicBatchIndices(tq, topic) ==
    LET pos == SelectSeq([i \in 1..Len(tq) |-> i],
                         LAMBDA i : TopicKey(tq[i]) = topic)
    IN [j \in 1..Len(pos) |-> (pos[j] - 1) \div DEFAULT_BATCH_SIZE]

TopicKeys(tq) == { TopicKey(tq[i]) : i \in 1..Len(tq) }

\* the test of one topic in the "Check for inefficiency" loop
TopicFragmented(tq, topic) ==
    LET batch_indices == TopicBatchIndices(tq, topic)
        unique_batches == Range(batch_indices)
        total_count == Len(batch_indices)
        counts_per_batch == [b \in unique_batches |->
            Cardinality({ j \in 1..Len(batch_indices) : batch_indices[j] = b })]
        has_full_chunk == \E b \in unique_batches :
                              counts_per_batch[b] = DEFAULT_BATCH_SIZE
    IN /\ Cardinality(unique_batches) > 1
       /\ \/ total_count >= DEFAULT_BATCH_SIZE /\ ~has_full_chunk
          \/ total_count < DEFAULT_BATCH_SIZE /\ Cardinality(unique_batches) > 1

NeedsOptimization(tq) == \E topic \in TopicKeys(tq) : TopicFragmented(tq, topic)

\* topic_map[topic]
TopicQuestions(tq, topic) == SelectSeq(tq, LAMBDA q : TopicKey(q) = topic)

\* the requests the while loop moves to final_list_for_type for one topic
FullChunks(questions) ==
    SubSeq(questions, 1,
           (Len(questions) \div DEFAULT_BATCH_SIZE) * DEFAULT_BATCH_SIZE)

\* what the while loop leaves for remainder_pool
Leftover(questions) ==
    SubSeq(questions,
           (Len(questions) \div DEFAULT_BATCH_SIZE) * DEFAULT_BATCH_SIZE + 1,
           Len(questions))

\* sorted_topics = sorted(topic_map.keys())
SortedTopics(tq) == SortedStrings(TopicKeys(tq))

RECURSIVE FullChunksOver(_, _)
\* final_list_for_type after the "for topic in sorted_topics" loop
FullChunksOver(tq, topics) ==
    IF topics = << >> THEN << >>
    ELSE FullChunks(TopicQuestions(tq, Head(topics)))
             \o FullChunksOver(tq, Tail(topics))

\* remainder_pool assigned instead of extended: only the last topic's
\* leftover survives
RemainderPoolLastTopic(tq, topics) ==
    IF topics = << >> THEN << >>
    ELSE Leftover(TopicQuestions(tq, topics[Len(topics)]))

RECURSIVE RemainderPool(_, _)
\* remainder_pool after the "for topic in sorted_topics" loop
RemainderPool(tq, topics) ==
    IF topics = << >> THEN << >>
    ELSE Leftover(TopicQuestions(tq, Head(topics)))
             \o RemainderPool(tq, Tail(topics))

\* range(0, len(lst) + 1, BATCH_SIZE): a trailing empty batch when the
\* length is a multiple of the batch size
SliceBatchesTrailing(lst) ==
    [b \in 1..(Len(lst) \div DEFAULT_BATCH_SIZE + 1) |->
        PySlice(lst, (b - 1) * DEFAULT_BATCH_SIZE,
                (b - 1) * DEFAULT_BATCH_SIZE + DEFAULT_BATCH_SIZE)]

\* [lst[i:i + BATCH_SIZE] for i in range(0, len(lst), BATCH_SIZE)]
SliceBatches(lst) ==
    [b \in 1..((Len(lst) + DEFAULT_BATCH_SIZE - 1) \div DEFAULT_BATCH_SIZE) |->
        PySlice(lst, (b - 1) * DEFAULT_BATCH_SIZE,
                (b - 1) * DEFAULT_BATCH_SIZE + DEFAULT_BATCH_SIZE)]

RECURSIVE Concat(_)
\* for chunk in chunks: out.extend(chunk)
Concat(chunks) ==
    IF chunks = << >> THEN << >> ELSE Head(chunks) \o Concat(Tail(chunks))

\* "3. Priority Packing": full chunks topic by topic, then the remainder pool
PriorityPack(tq) ==
    FullChunksOver(tq, SortedTopics(tq))
        \o Concat(SliceBatches(RemainderPool(tq, SortedTopics(tq))))

\* the packing applied whether or not a topic is fragmented
PackTypeAlways(tq) == PriorityPack(tq)

\* final_grouped[q_type]
PackType(tq) == IF NeedsOptimization(tq) THEN PriorityPack(tq) ELSE tq

GroupQuestionsByTypeAndTopic(cfg) ==
    LET indexed == AssignIndices(cfg)
    IN [t \in Range(TypeOrder(cfg)) |-> PackType(OfType(indexed, t))]

(***************************************************************************)
(* Text.  A string handled by the flow is a sequence of tokens.            *)
(*   delim  the literal |||QUESTION_START|||                               *)
(*   head   a heading the fallback pattern matches, "Question n"           *)
(*   word   text with no whitespace, brace, fence, delimiter or heading    *)
(*   ws     whitespace                                                     *)
(*   fence  ``` or ```json                                                 *)
(*   json   a well-formed JSON object; obj lists its members in order,     *)
(*          each value a string (a sequence of tokens)                     *)
(*   brace  a "{" that starts no well-formed JSON object                   *)
(***************************************************************************)
Tok(k, n, v, obj) == [k |-> k, n |-> n, v |-> v, obj |-> obj]
DELIM == Tok("delim", 0, "", << >>)
WS == Tok("ws", 0, "", << >>)
FENCE == Tok("fence", 0, "", << >>)
BRACE == Tok("brace", 0, "", << >>)
HEADING(n) == Tok("head", n, "", << >>)
WORD(v) == Tok("word", 0, v, << >>)
JSON(obj) == Tok("json", 0, "", obj)

\* dict keys: "question<n>" and the names of summary fields
QKey(n) == [p |-> "question", n |-> n]
MKey(name) == [p |-> name, n |-> 0]
Pair(key, val) == [key |-> key, val |-> val]

\* an insertion-ordered dict is a sequence of pairs with distinct keys
Keys(d) == { d[i].key : i \in 1..Len(d) }

Get(d, key) == (CHOOSE pr \in Range(d) : pr.key = key).val

\* d[key] = val: a present key keeps its place
DictSet(d, key, val) ==
    IF key \in Keys(d)
    THEN [i \in 1..Len(d) |-> IF d[i].key = key THEN Pair(key, val) ELSE d[i]]
    ELSE Append(d, Pair(key, val))

RECURSIVE RStrip(_)
RStrip(s) ==
    IF s # << >> /\ s[Len(s)].k = "ws" THEN RStrip(SubSeq(s, 1, Len(s) - 1)) ELSE s

RECURSIVE LStripText(_)
LStripText(s) == IF s # << >> /\ Head(s).k = "ws" THEN LStripText(Tail(s)) ELSE s

\* str.strip()
Strip(s) == LStripText(RStrip(s))

RECURSIVE SplitBy(_, _)
\* text.split(sep) for a separator token kind: the parts around every sep
SplitBy(text, kind) ==
    IF \A i \in 1..Len(text) : text[i].k # kind THEN << text >>
    ELSE LET i == CHOOSE j \in 1..Len(text) :
                     /\ text[j].k = kind
                     /\ \A h \in 1..(j - 1) : text[h].k # kind
         IN << SubSeq(text, 1, i - 1) >>
                \o SplitBy(SubSeq(text, i + 1, Len(text)), kind)

RECURSIVE DelimiterQuestions(_, _)
\* the loop "for i in range(start_index, len(parts))" over parts[1:];
\* q_index counts the non-empty parts
DelimiterQuestions(parts, q_index) ==
    IF parts = << >> THEN << >>
    ELSE LET content == Strip(Head(parts))
         IN IF content = << >>
            THEN DelimiterQuestions(Tail(parts), q_index)
            ELSE << Pair(QKey(q_index), content) >>
                     \o DelimiterQuestions(Tail(parts), q_index + 1)

RECURSIVE HeadingQuestions(_, _)
\* the loop over re.split's (number, content) pairs: the header is rebuilt
\* in the standard form and the whole stripped
HeadingQuestions(text, questions) ==
    IF \A i \in 1..Len(text) : text[i].k # "head" THEN questions
    ELSE LET i == CHOOSE j \in 1..Len(text) :
                     /\ text[j].k = "head"
                     /\ \A h \in 1..(j - 1) : text[h].k # "head"
             rest == SubSeq(text, i + 1, Len(text))
             content == Head(SplitBy(rest, "head"))
             full_content == << HEADING(text[i].n) >> \o content
         IN HeadingQuestions(rest,
                DictSet(questions, QKey(text[i].n), Strip(full_content)))

\* split_generated_content
SplitGeneratedContent(text) ==
    IF \A i \in 1..Len(text) : text[i].k # "delim"
    THEN IF \E i \in 1..Len(text) : text[i].k = "head"
         THEN HeadingQuestions(text, << >>)
         ELSE << Pair(QKey(1), text) >>
    ELSE DelimiterQuestions(Tail(SplitBy(text, "delim")), 1)

\* extract_first_json_match: the object decoded at the first "{", or None
NoJson == [found |-> FALSE, obj |-> << >>]

ExtractFirstJsonMatch(text) ==
    IF \A i \in 1..Len(text) : text[i].k \notin {"json", "brace"} THEN NoJson
    ELSE LET i == CHOOSE j \in 1..Len(text) :
                     /\ text[j].k \in {"json", "brace"}
                     /\ \A h \in 1..(j - 1) : text[h].k \notin {"json", "brace"}
         IN IF text[i].k = "json"
            THEN [found |-> TRUE, obj |-> text[i].obj]
            ELSE NoJson

\* raw_text.replace('```json', '').replace('```', ''): the fences go, also
\* those inside the string values of a JSON object
DropFences(s) == SelectSeq(s, LAMBDA t : t.k # "fence")

RemoveFences(text) ==
    LET top == DropFences(text)
    IN [i \in 1..Len(top) |->
          IF top[i].k = "json"
          THEN JSON([j \in 1..Len(top[i].obj) |->
                       Pair(top[i].obj[j].key, DropFences(top[i].obj[j].val))])
          ELSE top[i]]

\* a dict of strings as a function
AsFunction(d) == [key \in Keys(d) |-> Get(d, key)]

RequiredKeys ==
    { MKey("batch_summary"), MKey("core_equation"), MKey("solution_pattern"),
      MKey("scenario_signature"), MKey("context_domain"), MKey("answer_form") }

\* extract_core_skill_metadata
ExtractCoreSkillMetadata(response_text) ==
    LET metadata == ExtractFirstJsonMatch(response_text)
    IN IF metadata.found /\ metadata.obj # << >>
          /\ Keys(metadata.obj) \cap RequiredKeys # {}
       THEN AsFunction(metadata.obj)
       ELSE << >>

(***************************************************************************)
(* The Model Client (run_gemini_async) is the environment: a call returns  *)
(* {text, error}; error is None (here the empty string) on success.        *)
(***************************************************************************)
NoError == << >>

Outcome(error, text) == [error |-> error, text |-> text]

\* run_gemini's except branch: out["error"] = str(e), "[Gemini Error] ..."
GeminiError == Outcome(<< WORD("quota") >>,
                       << WORD("[Gemini"), WS, WORD("Error]"), WS, WORD("quota") >>)

\* generate_raw_batch's except branch (the prompt could not be built)
GenerateRaised == Outcome(<< WORD("template") >>,
                          << WORD("Error"), WS, WORD("generating"), WS, WORD("template") >>)

\* a summary object, then two delimited questions
TextDelimited ==
    << JSON(<< Pair(MKey("batch_summary"), << WORD("s1") >>) >>), WS,
       DELIM, WORD("q1"), WS, DELIM, WS, WORD("q2"), FENCE >>

\* no delimiter: one question under a heading, then a summary object whose
\* batch_summary is blank and that names a further field
TextHeading ==
    << HEADING(1), WS, WORD("q1"), WS,
       JSON(<< Pair(MKey("batch_summary"), << WS >>),
               Pair(MKey("other"), << WORD("o") >>) >>) >>

\* neither delimiter nor heading nor summary
TextPlain == << WORD("q1"), WS >>

GenTexts == { TextDelimited, TextHeading, TextPlain }

GenOutcomes == { GeminiError, GenerateRaised }
                   \cup { Outcome(NoError, t) : t \in GenTexts }

\* what a validation call for the chunk stored under key may return
ValidatedJson(key) ==
    Outcome(NoError, << FENCE, JSON(<< Pair(key, << WORD("validated") >>) >>), FENCE >>)

ValidatedProse == Outcome(NoError, << WORD("sorry") >>)

ValOutcomes(key) == { ValidatedJson(key), ValidatedProse, GeminiError }

(***************************************************************************)
(* Batch Flow Runner: process_single_batch_flow.                           *)
(***************************************************************************)
\* f"{base_type_key} - Batch {i + 1}"
BatchKey(type, n) == type \o << BatchSuffix(n) >>

EmptyMeta == << >>

\* the value stored in aggregated_json[q_key] for one validation result
AggregatedValue(v_res) ==
    LET raw_text == v_res.text
        cleaner_text == Strip(RemoveFences(raw_text))
        data == ExtractFirstJsonMatch(cleaner_text)
        data_retry == ExtractFirstJsonMatch(raw_text)
    IN IF data.found /\ data.obj # << >>
       THEN data.obj[1].val
       ELSE IF data_retry.found /\ data_retry.obj # << >>
            THEN data_retry.obj[1].val
            ELSE raw_text

RECURSIVE AggregateJsonSkipErrors(_, _, _)
\* the loop with "if v_res.get('error'): continue"
AggregateJsonSkipErrors(split, results, aggregated_json) ==
    IF split = << >> THEN aggregated_json
    ELSE AggregateJsonSkipErrors(Tail(split), Tail(results),
             IF Head(results).error # << >> THEN aggregated_json
             ELSE DictSet(aggregated_json, Head(split).key,
                          AggregatedValue(Head(results))))

RECURSIVE AggregateJson(_, _, _)
\* the loop "for q_key, v_res in validation_results"
AggregateJson(split, results, aggregated_json) ==
    IF split = << >> THEN aggregated_json
    ELSE AggregateJson(Tail(split), Tail(results),
             DictSet(aggregated_json, Head(split).key,
                     AggregatedValue(Head(results))))

\* json.dumps(aggregated_json): the text of one JSON object
JsonDumps(d) == << JSON(d) >>

\* the failure payload with the validated part of a successful batch
FailedPayloadAsValidated(raw, meta) ==
    [raw |-> raw,
     validated |-> [error |-> << >>, text |-> raw.text],
     core_skill_metadata |-> meta]

\* result_payload when generation failed
FailedPayload(raw, meta) ==
    [raw |-> raw,
     validated |-> Outcome(<< WORD("Skipped") >>, << >>),
     core_skill_metadata |-> meta]

\* result_payload after the aggregation stage
FinalPayload(raw, split, results, meta) ==
    [raw |-> raw,
     validated |-> Outcome(NoError, JsonDumps(AggregateJson(split, results, << >>))),
     core_skill_metadata |-> meta]

\* core_skill_metadata as computed after the generation call
CoreSkillMetadata(enabled, raw) ==
    IF enabled /\ raw.error = NoError
    THEN ExtractCoreSkillMetadata(raw.text)
    ELSE EmptyMeta

Set(f, k, v) == [x \in DOMAIN f \cup {k} |-> IF x = k THEN v ELSE f[x]]

\* the generation call returns; the flow runs on to its next await (the
\* gather of the validation calls) or, on a generation error, to its end.
\* The caller's progress_callback may raise.
FlowGenerate(k) ==
    /\ k \in DOMAIN flow_stage
    /\ flow_stage[k] = "generating"
    /\ \E raw \in GenOutcomes, callback_raises \in BOOLEAN :
         LET meta == CoreSkillMetadata(core_skill_enabled, raw)
             split == SplitGeneratedContent(raw.text)
         IN /\ IF raw.error # NoError
               THEN /\ flow_stage' = Set(flow_stage, k,
                           IF callback_raises THEN "raised" ELSE "done")
                    /\ raw_result' = Set(raw_result, k, raw)
                    /\ flow_result' =
                           IF callback_raises THEN flow_result
                           ELSE Set(flow_result, k,
                                    [payload |-> FailedPayload(raw, meta),
                                     metadata |-> meta])
                    /\ UNCHANGED << split_questions, model_calls >>
               ELSE /\ callback_raises = FALSE
                    /\ raw_result' = Set(raw_result, k, raw)
                    /\ flow_stage' = Set(flow_stage, k, "validating")
                    /\ split_questions' = Set(split_questions, k, split)
                    /\ model_calls' = Set(model_calls, k, model_calls[k] + Len(split))
                    /\ UNCHANGED flow_result
    /\ UNCHANGED << questions_config, core_skill_enabled, pc, grouped_questions,
                    flow_questions, flow_prev_meta, validation_results,
                    seq_pos, accumulated_metadata, metadata_after,
                    pipeline_results >>
    /\ UNCHANGED << regen_vars, norm_vars >>

\* asyncio.gather(*validation_tasks) returns: one result per split chunk;
\* the flow aggregates, reports and returns.  The validation results of a
\* flow whose callback raised are gone with its frame and are not recorded.
FlowValidate(k) ==
    /\ k \in DOMAIN flow_stage
    /\ flow_stage[k] = "validating"
    /\ \E callback_raises \in BOOLEAN :
       \E results \in [1..Len(split_questions[k]) ->
                          UNION { ValOutcomes(pr.key) : pr \in Range(split_questions[k]) }] :
         /\ \A i \in 1..Len(split_questions[k]) :
                results[i] \in ValOutcomes(split_questions[k][i].key)
         /\ validation_results' =
                IF callback_raises THEN validation_results
                ELSE Set(validation_results, k, results)
         /\ flow_stage' = Set(flow_stage, k,
                IF callback_raises THEN "raised" ELSE "done")
         /\ flow_result' =
                IF callback_raises THEN flow_result
                ELSE LET meta == CoreSkillMetadata(core_skill_enabled, raw_result[k])
                     IN Set(flow_result, k,
                            [payload |-> FinalPayload(raw_result[k],
                                             split_questions[k], results, meta),
                             metadata |-> meta])
    /\ UNCHANGED << questions_config, core_skill_enabled, pc, grouped_questions,
                    flow_questions, flow_prev_meta, raw_result, split_questions,
                    model_calls, seq_pos, accumulated_metadata, metadata_after,
                    pipeline_results >>
    /\ UNCHANGED << regen_vars, norm_vars >>

(***************************************************************************)
(* Pipeline Scheduler: process_batches_pipeline.                           *)
(***************************************************************************)
\* batches, for one type of grouped_questions
Batches(grouped, type) == SliceBatches(grouped[type])

\* the key of the entry returned when validation.yaml cannot be loaded
ErrorKey == TypeName("error")

TemplateError == [error |-> << WORD("Critical") >>]

\* group_questions_by_type_and_topic(questions_config)
Group ==
    /\ pc = "start"
    /\ grouped_questions' = GroupQuestionsByTypeAndTopic(questions_config)
    /\ questions_config' = AssignIndices(questions_config)
    /\ pc' = "grouped"
    /\ UNCHANGED << core_skill_enabled, flow_stage, flow_questions, flow_prev_meta,
                    raw_result, split_questions, validation_results, flow_result,
                    model_calls, seq_pos, accumulated_metadata, metadata_after,
                    pipeline_results >>
    /\ UNCHANGED << regen_vars, norm_vars >>

\* validation.yaml cannot be read: return {'error': ...}
LoadTemplateFails ==
    /\ pc = "grouped"
    /\ pipeline_results' = Set(pipeline_results, ErrorKey, TemplateError)
    /\ pc' = "returned"
    /\ UNCHANGED << questions_config, core_skill_enabled, grouped_questions,
                    flow_stage, flow_questions, flow_prev_meta, raw_result,
                    split_questions, validation_results, flow_result, model_calls,
                    seq_pos, accumulated_metadata, metadata_after >>
    /\ UNCHANGED << regen_vars, norm_vars >>

\* the types of grouped_questions in iteration order
Types == TypeOrder(questions_config)

RECURSIVE AllBatchTasks(_, _)
\* all_batch_tasks: the arguments of one task per batch, type by type
AllBatchTasks(grouped, types) ==
    IF types = << >> THEN << >>
    ELSE [i \in 1..Len(Batches(grouped, Head(types))) |->
             [batch_key |-> BatchKey(Head(types), i),
              questions |-> Batches(grouped, Head(types))[i]]]
         \o AllBatchTasks(grouped, Tail(types))

\* parallel mode: one task per batch of every type, gathered together;
\* every task runs to its generation call
LaunchParallel ==
    /\ pc = "grouped"
    /\ ~core_skill_enabled
    /\ LET tasks == AllBatchTasks(grouped_questions, Types)
           keys == { tasks[i].batch_key : i \in 1..Len(tasks) }
       IN /\ flow_stage' = [k \in keys |-> "generating"]
          /\ flow_questions' =
                 [k \in keys |->
                    (CHOOSE task \in Range(tasks) : task.batch_key = k).questions]
          /\ flow_prev_meta' = [k \in keys |-> EmptyMeta]
          /\ model_calls' = [k \in keys |-> 1]
    /\ pc' = "gathering"
    /\ UNCHANGED << questions_config, core_skill_enabled, grouped_questions,
                    raw_result, split_questions, validation_results, flow_result,
                    seq_pos, accumulated_metadata, metadata_after,
                    pipeline_results >>
    /\ UNCHANGED << regen_vars, norm_vars >>

\* the key under which a flow hands its metadata back to the scheduler
MetadataKey == TypeName("_metadata")

\* the dict a flow returns: {batch_key: result_payload, '_metadata': ...}
ReturnedDict(k, res) ==
    [x \in {k, MetadataKey} |-> IF x = k THEN res.payload ELSE res.metadata]

\* the dict after a pop that removed nothing
PopNothing(d, key) == d

\* d after d.pop(key, default)
Pop(d, key) == [x \in DOMAIN d \ {key} |-> d[x]]

\* d after d.update(other)
Update(d, other) ==
    [x \in DOMAIN d \cup DOMAIN other |-> IF x \in DOMAIN other THEN other[x] ELSE d[x]]

RECURSIVE UpdateAll(_, _)
\* d after d.update(x) for every x of dicts, in order
UpdateAll(d, dicts) ==
    IF dicts = << >> THEN d
    ELSE UpdateAll(Update(d, Head(dicts)), Tail(dicts))

\* gather without return_exceptions: an exception discards every result
GatheredResultsAbort(results, tasks, stages, returned) ==
    IF \E k \in DOMAIN stages : stages[k] = "raised"
    THEN results
    ELSE [k \in DOMAIN results \cup DOMAIN returned |->
            IF k \in DOMAIN returned THEN returned[k].payload ELSE results[k]]

\* the loop "for res in all_results_list": a dict loses its _metadata and
\* updates pipeline_results, an exception is logged
GatheredResults(results, tasks, stages, returned) ==
    LET dicts == SelectSeq([i \in 1..Len(tasks) |-> tasks[i].batch_key],
                           LAMBDA k : stages[k] = "done")
    IN UpdateAll(results,
           [i \in 1..Len(dicts) |->
               Pop(ReturnedDict(dicts[i], returned[dicts[i]]), MetadataKey)])

\* asyncio.gather(..., return_exceptions=True) returns once every task has
\* returned or raised
GatherReturns ==
    /\ pc = "gathering"
    /\ \A k \in DOMAIN flow_stage : flow_stage[k] \in {"done", "raised"}
    /\ pipeline_results' =
           GatheredResults(pipeline_results,
                           AllBatchTasks(grouped_questions, Types),
                           flow_stage, flow_result)
    /\ pc' = "returned"
    /\ UNCHANGED << questions_config, core_skill_enabled, grouped_questions,
                    flow_stage, flow_questions, flow_prev_meta, raw_result,
                    split_questions, validation_results, flow_result, model_calls,
                    seq_pos, accumulated_metadata, metadata_after >>
    /\ UNCHANGED << regen_vars, norm_vars >>

\* the string f"{current_val}, {new_val}"
JoinValues(current_val, new_val) == current_val \o << WORD(","), WS >> \o new_val

\* the accumulator replaced by whatever the batch returned, with no test of
\* "if batch_metadata"
MergeMetadataAssign(accumulated, batch_metadata) == batch_metadata

\* the merge with no test of new_val.strip(): every returned value of a
\* key already present is appended
MergeMetadataAppendAlways(accumulated, batch_metadata) ==
    IF DOMAIN batch_metadata = {} THEN accumulated
    ELSE IF DOMAIN accumulated = {} THEN batch_metadata
    ELSE [key \in DOMAIN accumulated \cup DOMAIN batch_metadata |->
            IF key \in DOMAIN batch_metadata
            THEN IF key \in DOMAIN accumulated
                 THEN JoinValues(accumulated[key], batch_metadata[key])
                 ELSE batch_metadata[key]
            ELSE accumulated[key]]

\* accumulated_metadata.update(batch_metadata): new values replace old ones
MergeMetadataOverwrite(accumulated, batch_metadata) ==
    [key \in DOMAIN accumulated \cup DOMAIN batch_metadata |->
        IF key \in DOMAIN batch_metadata THEN batch_metadata[key]
        ELSE accumulated[key]]

\* accumulated_metadata after the merge of one batch's _metadata
MergeMetadata(accumulated, batch_metadata) ==
    IF DOMAIN batch_metadata = {} THEN accumulated
    ELSE IF DOMAIN accumulated = {} THEN batch_metadata
    ELSE [key \in DOMAIN accumulated \cup DOMAIN batch_metadata |->
            IF key \in DOMAIN batch_metadata
            THEN IF key \in DOMAIN accumulated
                 THEN IF Strip(batch_metadata[key]) # << >>
                      THEN JoinValues(accumulated[key], batch_metadata[key])
                      ELSE accumulated[key]
                 ELSE batch_metadata[key]
            ELSE accumulated[key]]

\* the flow started with previous_batch_metadata=None
StartFlowNoMetadata(ti, bi, accumulated) ==
    LET k == BatchKey(Types[ti], bi)
    IN /\ flow_stage' = Set(flow_stage, k, "generating")
       /\ flow_questions' =
              Set(flow_questions, k, Batches(grouped_questions, Types[ti])[bi])
       /\ flow_prev_meta' = Set(flow_prev_meta, k, EmptyMeta)
       /\ model_calls' = Set(model_calls, k, 1)
       /\ seq_pos' = << ti, bi >>

\* sequential mode: the call of process_single_batch_flow for batch (ti, bi),
\* run to its generation call
StartFlow(ti, bi, accumulated) ==
    LET k == BatchKey(Types[ti], bi)
    IN /\ flow_stage' = Set(flow_stage, k, "generating")
       /\ flow_questions' =
              Set(flow_questions, k, Batches(grouped_questions, Types[ti])[bi])
       /\ flow_prev_meta' = Set(flow_prev_meta, k, accumulated)
       /\ model_calls' = Set(model_calls, k, 1)
       /\ seq_pos' = << ti, bi >>

\* sequential mode: the loops are entered; with no type at all the pipeline
\* returns its empty mapping
LaunchSequential ==
    /\ pc = "grouped"
    /\ core_skill_enabled
    /\ IF Types = << >>
       THEN /\ pc' = "returned"
            /\ UNCHANGED << flow_stage, flow_questions, flow_prev_meta,
                            model_calls, seq_pos >>
       ELSE /\ pc' = "awaiting"
            /\ StartFlow(1, 1, EmptyMeta)
    /\ accumulated_metadata' = EmptyMeta
    /\ UNCHANGED << questions_config, core_skill_enabled, grouped_questions,
                    raw_result, split_questions, validation_results, flow_result,
                    metadata_after, pipeline_results >>
    /\ UNCHANGED << regen_vars, norm_vars >>

\* the accumulator carried from one type into the next
NextTypeAccumulatorKept(accumulated) == accumulated

\* "accumulated_metadata = {}" at the top of the loop over types: what the
\* next type starts with, whatever the type before it accumulated
NextTypeAccumulator(accumulated) == EmptyMeta

\* sequential mode: the awaited flow returned; its metadata is merged, its
\* entry stored, and the loops move on to the next batch, the next type or
\* the return
AwaitReturns ==
    /\ pc = "awaiting"
    /\ LET ti == seq_pos[1]
           bi == seq_pos[2]
           k == BatchKey(Types[ti], bi)
       IN /\ flow_stage[k] = "done"
          /\ LET merged == MergeMetadata(accumulated_metadata,
                                         flow_result[k].metadata)
             IN /\ metadata_after' = Set(metadata_after, k, merged)
                /\ pipeline_results' =
                       Update(pipeline_results,
                              Pop(ReturnedDict(k, flow_result[k]), MetadataKey))
                /\ IF bi < Len(Batches(grouped_questions, Types[ti]))
                   THEN /\ accumulated_metadata' = merged
                        /\ StartFlow(ti, bi + 1, merged)
                        /\ pc' = "awaiting"
                   ELSE IF ti < Len(Types)
                   THEN /\ accumulated_metadata' = NextTypeAccumulator(merged)
                        /\ StartFlow(ti + 1, 1, NextTypeAccumulator(merged))
                        /\ pc' = "awaiting"
                   ELSE /\ accumulated_metadata' = merged
                        /\ pc' = "returned"
                        /\ UNCHANGED << flow_stage, flow_questions,
                                        flow_prev_meta, model_calls, seq_pos >>
    /\ UNCHANGED << questions_config, core_skill_enabled, grouped_questions,
                    raw_result, split_questions, validation_results, flow_result >>
    /\ UNCHANGED << regen_vars, norm_vars >>

\* sequential mode: the awaited flow raised; nothing catches the exception
AwaitRaises ==
    /\ pc = "awaiting"
    /\ flow_stage[BatchKey(Types[seq_pos[1]], seq_pos[2])] = "raised"
    /\ pc' = "raised"
    /\ UNCHANGED << questions_config, core_skill_enabled, grouped_questions,
                    flow_stage, flow_questions, flow_prev_meta, raw_result,
                    split_questions, validation_results, flow_result, model_calls,
                    seq_pos, accumulated_metadata, metadata_after,
                    pipeline_results >>
    /\ UNCHANGED << regen_vars, norm_vars >>

(***************************************************************************)
(* Regeneration Remapper: regenerate_specific_questions_pipeline.          *)
(* general_config carries no existing_content_map and no                   *)
(* regeneration_reasons_map, so no original_text or regeneration_reason    *)
(* is attached.                                                            *)
(***************************************************************************)
IsBatchSuffix(tok) == tok.s = " - Batch "

\* the position of the first " - Batch " of a string, 0 when it has none
FirstBatchAt(str) ==
    IF \A i \in 1..Len(str) : ~IsBatchSuffix(str[i]) THEN 0
    ELSE CHOOSE i \in 1..Len(str) :
             /\ IsBatchSuffix(str[i])
             /\ \A h \in 1..(i - 1) : ~IsBatchSuffix(str[h])

\* base_type = q_type.split(' - Batch ')[0]
BaseType(q_type) ==
    IF FirstBatchAt(q_type) = 0 THEN q_type
    ELSE SubSeq(q_type, 1, FirstBatchAt(q_type) - 1)

\* batch_num: int(q_type.split(' - Batch ')[1]), or 1 when the key has no
\* " - Batch " or int() raises on the text that follows the digits
BatchNum(q_type) ==
    LET i == FirstBatchAt(q_type)
    IN IF i = 0 THEN 1
       ELSE IF i < Len(q_type) /\ ~IsBatchSuffix(q_type[i + 1]) THEN 1
       ELSE q_type[i].n

\* the index taken within the type's list, the batch number ignored
TargetGlobalIdxNoOffset(q_type, idx) == idx - 1

\* target_global_idx = offset + (idx - 1)
TargetGlobalIdx(q_type, idx) ==
    (BatchNum(q_type) - 1) * DEFAULT_BATCH_SIZE + (idx - 1)

\* the positions in the config of grouped_map[base_type], in input order
TypePositions(config, base_type) ==
    SelectSeq([i \in 1..Len(config) |-> i],
              LAMBDA i : QType(config[i]) = base_type)

\* 0 <= target_global_idx < len(questions_of_type); a type that is not in
\* grouped_map has no position at all
IndexValid(config, q_type, idx) ==
    /\ 0 <= TargetGlobalIdx(q_type, idx)
    /\ TargetGlobalIdx(q_type, idx) < Len(TypePositions(config, BaseType(q_type)))

\* where in the config questions_of_type[target_global_idx] lies
ResolvedPosition(config, q_type, idx) ==
    TypePositions(config, BaseType(q_type))[TargetGlobalIdx(q_type, idx) + 1]

\* q_config = questions_of_type[target_global_idx]
Resolve(config, q_type, idx) == config[ResolvedPosition(config, q_type, idx)]

\* d[f] = v on a request
SetField(q, f, v) == [x \in DOMAIN q \cup {f} |-> IF x = f THEN v ELSE q[x]]

\* q_config['_is_being_regenerated'] = True
Tagged(q) == SetField(q, "_is_being_regenerated", TRUE)

\* q_config_copy, with q_config_copy['type'] = q_type
ResentCopy(q, q_type) == SetField(Tagged(q), "type", q_type)

RECURSIVE SelectIndices(_, _, _)
\* the loop "for idx in indices" of one entry of the regeneration map
SelectIndices(config, q_type, indices) ==
    IF indices = << >> THEN << >>
    ELSE (IF IndexValid(config, q_type, Head(indices))
          THEN << ResentCopy(Resolve(config, q_type, Head(indices)), q_type) >>
          ELSE << >>)
         \o SelectIndices(config, q_type, Tail(indices))

RECURSIVE FilterConfig(_, _)
\* filtered_config after the loop over regeneration_map.items()
FilterConfig(config, map) ==
    IF map = << >> THEN << >>
    ELSE SelectIndices(config, Head(map).key, Head(map).val)
             \o FilterConfig(config, Tail(map))

\* original_config after the loop: the requests it resolved carry the tag
TaggedConfig(config, map) ==
    [i \in 1..Len(config) |->
        IF \E e \in 1..Len(map) : \E j \in 1..Len(map[e].val) :
               /\ IndexValid(config, map[e].key, map[e].val[j])
               /\ ResolvedPosition(config, map[e].key, map[e].val[j]) = i
        THEN Tagged(config[i])
        ELSE config[i]]

\* the value returned when nothing was selected
NoValidError == [error |-> << WORD("No"), WS, WORD("valid") >>]

RECURSIVE FirstDigit(_)
\* the first decimal digit of n
FirstDigit(n) == IF n < 10 THEN n ELSE FirstDigit(n \div 10)

\* the places where ' - Batch 1' occurs in a key
BatchOneAt(k) ==
    { i \in 1..Len(k) : IsBatchSuffix(k[i]) /\ FirstDigit(k[i].n) = 1 }

\* original_key: k.rsplit(' - Batch 1', 1)[0] when ' - Batch 1' is in k
OriginalKey(k) ==
    IF BatchOneAt(k) = {} THEN k
    ELSE SubSeq(k, 1, (CHOOSE i \in BatchOneAt(k) :
                          \A h \in BatchOneAt(k) : h <= i) - 1)

\* results.items(): the keys in insertion order
ResultItems(results, tasks) ==
    IF ErrorKey \in DOMAIN results THEN << ErrorKey >>
    ELSE SelectSeq([i \in 1..Len(tasks) |-> tasks[i].batch_key],
                   LAMBDA k : k \in DOMAIN results)

RECURSIVE FixKeys(_, _, _)
\* fixed_results after the loop "for k, v in results.items()"
FixKeys(results, items, fixed) ==
    IF items = << >> THEN fixed
    ELSE FixKeys(results, Tail(items),
                 Update(fixed, [x \in {OriginalKey(Head(items))} |->
                                    results[Head(items)]]))

\* the selection loop; with nothing selected the error mapping is returned,
\* else process_batches_pipeline is called on filtered_config
RegenFilter ==
    /\ regen_pc = "start"
    /\ filtered_config' = FilterConfig(original_config, regeneration_map)
    /\ original_config' = TaggedConfig(original_config, regeneration_map)
    /\ IF filtered_config' = << >>
       THEN /\ fixed_results' = Set(fixed_results, ErrorKey, NoValidError)
            /\ regen_pc' = "returned"
            /\ UNCHANGED << questions_config, pc >>
       ELSE /\ regen_pc' = "running"
            /\ questions_config' = filtered_config'
            /\ pc' = "start"
            /\ UNCHANGED fixed_results
    /\ UNCHANGED << core_skill_enabled, grouped_questions, flow_stage,
                    flow_questions, flow_prev_meta, raw_result, split_questions,
                    validation_results, flow_result, model_calls, seq_pos,
                    accumulated_metadata, metadata_after, pipeline_results,
                    regeneration_map, generated_output, produced_for >>
    /\ UNCHANGED norm_vars

\* process_batches_pipeline returned: the keys are post-processed
RegenFixKeys ==
    /\ regen_pc = "running"
    /\ pc = "returned"
    /\ fixed_results' =
           FixKeys(pipeline_results,
                   ResultItems(pipeline_results,
                               AllBatchTasks(grouped_questions, Types)),
                   fixed_results)
    /\ regen_pc' = "returned"
    /\ UNCHANGED << questions_config, core_skill_enabled, pc, grouped_questions,
                    flow_stage, flow_questions, flow_prev_meta, raw_result,
                    split_questions, validation_results, flow_result, model_calls,
                    seq_pos, accumulated_metadata, metadata_after,
                    pipeline_results, original_config, regeneration_map,
                    filtered_config, generated_output, produced_for >>
    /\ UNCHANGED norm_vars

\* process_batches_pipeline raised: nothing catches the exception
RegenRaises ==
    /\ regen_pc = "running"
    /\ pc = "raised"
    /\ regen_pc' = "raised"
    /\ UNCHANGED << questions_config, core_skill_enabled, pc, grouped_questions,
                    flow_stage, flow_questions, flow_prev_meta, raw_result,
                    split_questions, validation_results, flow_result, model_calls,
                    seq_pos, accumulated_metadata, metadata_after,
                    pipeline_results, original_config, regeneration_map,
                    filtered_config, fixed_results, generated_output,
                    produced_for >>
    /\ UNCHANGED norm_vars

(***************************************************************************)
(* Output Normalizer: normalize_llm_output_to_questions                    *)
(* (src/result_renderer.py).  Further tokens of a text:                    *)
(*   quoted   a JSON string literal, quotes included; obj is the string    *)
(*            it decodes to                                                *)
(*   pair     the text "question<n>": "<obj>" outside any JSON object      *)
(*   esc      the two characters backslash and n                           *)
(*   deep     a "{" that opens JSON nested deeper than the interpreter's    *)
(*            recursion limit                                              *)
(*   longint  a "{" that opens a JSON object holding an integer literal    *)
(*            longer than the interpreter's limit for int conversion       *)
(* The value of a member of a JSON object is a string (a sequence of the   *)
(* tokens above) or the one-token sequence of a nested object or a number. *)
(* FENCE is ``` (or ```json where it opens a block).                       *)
(***************************************************************************)
QUOTED(inner) == Tok("quoted", 0, "", inner)
PAIRTEXT(n, value) == Tok("pair", n, "", value)
ESC == Tok("esc", 0, "", << >>)
DEEP == Tok("deep", 0, "", << >>)
LONGINT == Tok("longint", 0, "", << >>)
OBJECT(obj) == Tok("object", 0, "", obj)
NUMBER(n) == Tok("number", n, "", << >>)

\* a key made of a prefix and digits, such as "Q2"
NKey(prefix, n) == [p |-> prefix, n |-> n]

IsDict(val) == Len(val) = 1 /\ val[1].k = "object"

IsNumber(val) == Len(val) = 1 /\ val[1].k = "number"

\* isinstance(val, str)
IsStr(val) == ~IsDict(val) /\ ~IsNumber(val)

\* bool(val)
Truthy(val) ==
    IF IsDict(val) THEN val[1].obj # << >>
    ELSE IF IsNumber(val) THEN val[1].n # 0
    ELSE val # << >>

\* str(val) of a value that is not a string
StrOf(val) ==
    IF IsNumber(val) THEN << Tok("word", val[1].n, "digits", << >>) >>
    ELSE << Tok("word", 0, "repr", val[1].obj) >>

\* json.dumps(v, indent=2)
JsonDumpsIndent(obj) == << JSON(obj) >>

\* the exception json's decoder raises at a token, "none" for a well-formed
\* object
DecodeError(tok) ==
    CASE tok.k = "json" -> "none"
      [] tok.k = "deep" -> "RecursionError"
      [] tok.k = "longint" -> "ValueError"
      [] OTHER -> "JSONDecodeError"

\* the token starts with "{"
StartsWithBrace(tok) == tok.k \in {"json", "brace", "deep", "longint"}

\* unescape_json_string: the escapes become the characters they stand for
UnescapeJsonString(str) ==
    [i \in 1..Len(str) |-> IF str[i].k = "esc" THEN WS ELSE str[i]]

\* re.sub(r"^```(?:json)?\s*\n?", "", text)
DropLeadingFence(text) ==
    IF text # << >> /\ Head(text).k = "fence" THEN LStripText(Tail(text)) ELSE text

\* re.sub(r"\n?\s*```$", "", text)
DropTrailingFence(text) ==
    IF text # << >> /\ text[Len(text)].k = "fence"
    THEN RStrip(SubSeq(text, 1, Len(text) - 1))
    ELSE text

\* "Step 1: Preliminary cleanup"
PreliminaryCleanup(text) ==
    LET stripped == Strip(text)
        unwrapped == IF Len(stripped) = 1 /\ stripped[1].k = "quoted"
                     THEN stripped[1].obj
                     ELSE stripped
    IN Strip(DropTrailingFence(DropLeadingFence(unwrapped)))

Returned(questions) == [exc |-> "none", questions |-> questions]

Raised(exc) == [exc |-> exc, questions |-> << >>]

RECURSIVE ExtractJsonObjects(_)
\* extract_json_objects: every object decoded at a "{", left to right; only
\* json.JSONDecodeError is caught
ExtractJsonObjects(text) ==
    IF text = << >> THEN Returned(<< >>)
    ELSE IF ~StartsWithBrace(Head(text)) \/ DecodeError(Head(text)) = "JSONDecodeError"
         THEN ExtractJsonObjects(Tail(text))
    ELSE IF DecodeError(Head(text)) # "none" THEN Raised(DecodeError(Head(text)))
    ELSE LET rest == ExtractJsonObjects(Tail(text))
         IN IF rest.exc # "none" THEN rest
            ELSE Returned(<< Head(text).obj >> \o rest.questions)

\* key.lower(), for the prefixes that occur
LowerPrefix(prefix) ==
    CASE prefix \in {"question", "Question", "QUESTION"} -> "question"
      [] prefix \in {"q", "Q"} -> "q"
      [] OTHER -> prefix

\* re.match(r'^question\d+$', k, re.IGNORECASE)
IsQuestionKeyLongOnly(key) == LowerPrefix(key.p) = "question" /\ key.n > 0

\* re.match(r'^(question|q)\d+$', k, re.IGNORECASE)
IsQuestionKey(key) == LowerPrefix(key.p) \in {"question", "q"} /\ key.n > 0

\* d.get(key): the value, or None (not truthy, not a string)
HasKey(d, key) == key \in Keys(d)

\* the value stored for a string v whose text s starts with "{" and parses
\* to the dict parsed
FromParsedDict(normalized_key, parsed, s) ==
    IF HasKey(parsed, normalized_key)
    THEN LET v_inner == Get(parsed, normalized_key)
         IN IF IsStr(v_inner) THEN UnescapeJsonString(v_inner) ELSE StrOf(v_inner)
    ELSE LET hits == { i \in 1..Len(parsed) :
                         /\ IsStr(parsed[i].val)
                         /\ LowerPrefix(parsed[i].key.p) = "question" }
         IN IF hits = {} THEN UnescapeJsonString(s)
            ELSE UnescapeJsonString(
                     parsed[CHOOSE i \in hits : \A h \in hits : i <= h].val)

\* the branch "if isinstance(v, str)"; json.loads(s) is guarded by
\* "except json.JSONDecodeError" only
NormalizeString(normalized_key, v) ==
    LET stripped == Strip(v)
        s == IF stripped # << >> /\ Head(stripped).k = "fence"
             THEN DropTrailingFence(DropLeadingFence(stripped))
             ELSE stripped
    IN IF s # << >> /\ StartsWithBrace(Head(s))
       THEN IF DecodeError(Head(s)) \in {"RecursionError", "ValueError"}
            THEN [exc |-> DecodeError(Head(s)), set |-> FALSE, value |-> << >>]
            ELSE IF DecodeError(Head(s)) = "none" /\ Strip(Tail(s)) = << >>
            THEN [exc |-> "none", set |-> TRUE,
                  value |-> FromParsedDict(normalized_key, Head(s).obj, s)]
            ELSE [exc |-> "none", set |-> TRUE, value |-> UnescapeJsonString(s)]
       ELSE [exc |-> "none", set |-> TRUE, value |-> UnescapeJsonString(s)]

\* v.get('content') or v.get('value') or v.get('markdown') or v.get('text'):
\* is the result a string, and which
ExtractedFrom(v) ==
    LET names == << MKey("content"), MKey("value"), MKey("markdown"), MKey("text") >>
        truthy == { i \in 1..Len(names) :
                      HasKey(v, names[i]) /\ Truthy(Get(v, names[i])) }
        first == CHOOSE i \in truthy : \A h \in truthy : i <= h
    IN IF truthy # {}
       THEN [str |-> IsStr(Get(v, names[first])), value |-> Get(v, names[first])]
       ELSE IF HasKey(v, MKey("text")) /\ IsStr(Get(v, MKey("text")))
            THEN [str |-> TRUE, value |-> Get(v, MKey("text"))]
            ELSE [str |-> FALSE, value |-> << >>]

\* the branch "elif isinstance(v, dict)"
NormalizeDict(v) ==
    LET extracted == ExtractedFrom(v)
        strings == { i \in 1..Len(v) : IsStr(v[i].val) }
    IN IF extracted.str THEN UnescapeJsonString(extracted.value)
       ELSE IF strings # {}
            THEN UnescapeJsonString(
                     v[CHOOSE i \in strings : \A h \in strings : i <= h].val)
            ELSE JsonDumpsIndent(v)

\* "VALUE NORMALIZATION" for one member of a target
NormalizeValue(normalized_key, v) ==
    IF IsStr(v) THEN NormalizeString(normalized_key, v)
    ELSE IF IsDict(v)
         THEN [exc |-> "none", set |-> TRUE, value |-> NormalizeDict(v[1].obj)]
    ELSE IF Truthy(v) THEN [exc |-> "none", set |-> TRUE, value |-> StrOf(v)]
    ELSE [exc |-> "none", set |-> FALSE, value |-> << >>]

RECURSIVE NormalizeItems(_, _)
\* the loop "for k, v in target.items()"
NormalizeItems(items, questions) ==
    IF items = << >> THEN Returned(questions)
    ELSE IF ~IsQuestionKey(Head(items).key)
         THEN NormalizeItems(Tail(items), questions)
    ELSE LET normalized_key == QKey(Head(items).key.n)
             res == NormalizeValue(normalized_key, Head(items).val)
         IN IF res.exc # "none" THEN Raised(res.exc)
            ELSE NormalizeItems(Tail(items),
                     IF res.set THEN DictSet(questions, normalized_key, res.value)
                     ELSE questions)

\* targets: the object, and the dict it wraps as CORRECTED_ITEM
Targets(obj) ==
    LET upper == MKey("CORRECTED_ITEM")
        lower == MKey("corrected_item")
        nested == IF HasKey(obj, upper) /\ Truthy(Get(obj, upper))
                  THEN Get(obj, upper)
                  ELSE IF HasKey(obj, lower) THEN Get(obj, lower) ELSE << >>
    IN IF (HasKey(obj, upper) \/ HasKey(obj, lower)) /\ IsDict(nested)
       THEN << obj, nested[1].obj >>
       ELSE << obj >>

RECURSIVE NormalizeTargets(_, _)
\* the loops "for obj in json_objects" and "for target in targets", over
\* the targets of all objects in order
NormalizeTargets(targets, questions) ==
    IF targets = << >> THEN Returned(questions)
    ELSE LET res == NormalizeItems(Head(targets), questions)
         IN IF res.exc # "none" THEN res
            ELSE NormalizeTargets(Tail(targets), res.questions)

RECURSIVE AllTargets(_)
AllTargets(objects) ==
    IF objects = << >> THEN << >>
    ELSE Targets(Head(objects)) \o AllTargets(Tail(objects))

\* the branch "if not json_objects"
WithoutObjects(text) ==
    LET pairs == { i \in 1..Len(text) : text[i].k = "pair" }
        match == text[CHOOSE i \in pairs : \A h \in pairs : i <= h]
    IN IF text = << >> THEN << >>
       ELSE IF pairs # {}
            THEN << Pair(QKey(match.n), UnescapeJsonString(match.obj)) >>
            ELSE << Pair(QKey(1), text) >>

\* normalize_llm_output_to_questions: the mapping returned, or the
\* exception that leaves the function
NormalizeLlmOutputToQuestions(raw_text) ==
    LET text == PreliminaryCleanup(raw_text)
        json_objects == ExtractJsonObjects(text)
    IN IF json_objects.exc # "none" THEN json_objects
       ELSE IF json_objects.questions = << >> THEN Returned(WithoutObjects(text))
       ELSE NormalizeTargets(AllTargets(json_objects.questions), << >>)

\* one call of normalize_llm_output_to_questions
NormalizeCall ==
    /\ norm_pc = "start"
    /\ norm_result' = NormalizeLlmOutputToQuestions(norm_text)
    /\ norm_pc' = IF norm_result'.exc = "none" THEN "returned" ELSE "raised"
    /\ UNCHANGED << questions_config, core_skill_enabled, pc, grouped_questions,
                    flow_stage, flow_questions, flow_prev_meta, raw_result,
                    split_questions, validation_results, flow_result, model_calls,
                    seq_pos, accumulated_metadata, metadata_after,
                    pipeline_results, regen_vars, norm_text >>

(***************************************************************************)
(* The caller's splice of regenerated questions into its stored output     *)
(* (src/streamlit_app.py, "Merge results back").                           *)
(***************************************************************************)
\* the text of question i of a stored batch, as the model wrote it
OldText(i) == << Tok("word", i, "old", << >>), ESC, WORD("x") >>

\* the stored validated.text of a batch of n questions
StoredText(n) == << JSON([i \in 1..n |-> Pair(QKey(i), OldText(i))]) >>

\* st.session_state.generated_output after the run that generated from
\* config: one entry per batch of the packer's output
StoredOutput(config) ==
    LET tasks == AllBatchTasks(GroupQuestionsByTypeAndTopic(config), TypeOrder(config))
    IN [k \in { tasks[i].batch_key : i \in 1..Len(tasks) } |->
           [validated |->
               [text |-> StoredText(
                   Len((CHOOSE task \in Range(tasks) : task.batch_key = k).questions))]]]

\* the request each stored question of that run was generated for
StoredFor(config) ==
    LET tasks == AllBatchTasks(GroupQuestionsByTypeAndTopic(config), TypeOrder(config))
    IN [k \in { tasks[i].batch_key : i \in 1..Len(tasks) } |->
           LET questions == (CHOOSE task \in Range(tasks) : task.batch_key = k).questions
           IN [i \in 1..Len(questions) |-> questions[i].original_index]]

RECURSIVE SortedInts(_)
\* sorted(indices)
SortedInts(indices) ==
    IF indices = << >> THEN << >>
    ELSE LET m == CHOOSE i \in 1..Len(indices) :
                      \A j \in 1..Len(indices) : indices[i] <= indices[j]
         IN << indices[m] >>
            \o SortedInts([j \in 1..(Len(indices) - 1) |->
                               IF j < m THEN indices[j] ELSE indices[j + 1]])

RECURSIVE SortedKeys(_)
\* sorted(keys, key=the number in the key)
SortedKeys(keys) ==
    IF keys = {} THEN << >>
    ELSE LET m == CHOOSE k \in keys : \A other \in keys : k.n <= other.n
         IN << m >> \o SortedKeys(keys \ {m})

\* regen_map.get(batch_key, [])
RequestedOf(map, batch_key) ==
    IF batch_key \in Keys(map) THEN Get(map, batch_key) ELSE << >>

RECURSIVE ReplaceQuestions(_, _, _, _)
\* the loop "for i, new_k in enumerate(sorted_new_keys)": the i-th new
\* question replaces the question at the i-th requested index
ReplaceQuestions(existing, new, sorted_new_keys, requested_indices) ==
    IF sorted_new_keys = << >> \/ requested_indices = << >> THEN existing
    ELSE ReplaceQuestions(
             DictSet(existing, QKey(Head(requested_indices)),
                     Get(new, Head(sorted_new_keys))),
             new, Tail(sorted_new_keys), Tail(requested_indices))

\* updated_json_str: the questions in the order of their numbers, as the
\* text of one JSON object
SerializeQuestions(questions) ==
    LET order == SortedKeys(Keys(questions))
    IN << JSON([i \in 1..Len(order) |-> Pair(order[i], Get(questions, order[i]))]) >>

\* the stored text of one batch after the splice of new_text_content
SplicedText(existing_text, new_text_content, requested) ==
    LET existing_questions_map == NormalizeLlmOutputToQuestions(existing_text).questions
        new_questions_map == NormalizeLlmOutputToQuestions(new_text_content).questions
    IN SerializeQuestions(
           ReplaceQuestions(existing_questions_map, new_questions_map,
                            SortedKeys(Keys(new_questions_map)),
                            SortedInts(requested)))

\* the request the text of question n of a regenerated batch was generated
\* for: the n-th request handed to the flow of the batch; -1 when the
\* batch had no n-th request
GeneratedFor(batch_key, n) ==
    LET flow_key == BatchKey(batch_key, 1)
    IN IF flow_key \in DOMAIN flow_questions /\ n \in 1..Len(flow_questions[flow_key])
       THEN filtered_config[flow_questions[flow_key][n].original_index + 1].original_index
       ELSE -1

RECURSIVE ReplaceFor(_, _, _, _)
\* produced_for of one batch, following ReplaceQuestions
ReplaceFor(for, batch_key, sorted_new_keys, requested_indices) ==
    IF sorted_new_keys = << >> \/ requested_indices = << >> THEN for
    ELSE ReplaceFor(Set(for, Head(requested_indices),
                        GeneratedFor(batch_key, Head(sorted_new_keys).n)),
                    batch_key, Tail(sorted_new_keys), Tail(requested_indices))

\* the batches of regen_results that are spliced: those with a validated
\* text and an entry in the stored output
SplicedKeys ==
    { k \in DOMAIN fixed_results \cap DOMAIN generated_output :
        fixed_results[k].validated.text # << >> }

\* the regeneration returned to the caller: an error mapping is reported,
\* any other mapping is spliced into the stored output batch by batch
MergeRegenerated ==
    /\ regen_pc = "returned"
    /\ IF ErrorKey \in DOMAIN fixed_results
       THEN /\ regen_pc' = "failed"
            /\ UNCHANGED << generated_output, produced_for >>
       ELSE /\ regen_pc' = "merged"
            /\ generated_output' =
                   [k \in DOMAIN generated_output |->
                       IF k \in SplicedKeys
                       THEN [validated |->
                               [text |-> SplicedText(
                                   generated_output[k].validated.text,
                                   fixed_results[k].validated.text,
                                   RequestedOf(regeneration_map, k))]]
                       ELSE generated_output[k]]
            /\ produced_for' =
                   [k \in DOMAIN produced_for |->
                       IF k \in SplicedKeys
                       THEN ReplaceFor(
                                produced_for[k], k,
                                SortedKeys(Keys(NormalizeLlmOutputToQuestions(
                                    fixed_results[k].validated.text).questions)),
                                SortedInts(RequestedOf(regeneration_map, k)))
                       ELSE produced_for[k]]
    /\ UNCHANGED << questions_config, core_skill_enabled, pc, grouped_questions,
                    flow_stage, flow_questions, flow_prev_meta, raw_result,
                    split_questions, validation_results, flow_result, model_calls,
                    seq_pos, accumulated_metadata, metadata_after,
                    pipeline_results, original_config, regeneration_map,
                    filtered_config, fixed_results >>
    /\ UNCHANGED norm_vars

(***************************************************************************)
(* Inputs and specifications.                                              *)
(***************************************************************************)
Question(type, topic) == [type |-> type, topic |-> topic, original_index |-> -1]

\* the requests the packer is run on: two topics that differ, a third that
\* normalises to the second and has no type, and a second type with no topic
PackKinds ==
    { Question(TypeName("MCQ"), << "B" >>),
      Question(TypeName("MCQ"), << "a" >>),
      Question(NoType, << " ", "A", " " >>),
      Question(TypeName("FIB"), << >>) }

PackInputs == SeqsUpTo(PackKinds, MaxQuestions)

\* the request lists of pipeline runs: a block of one type, then a block of
\* the other
PipelineInputs ==
    { Replicate(n1, Question(t1, << "a" >>)) \o Replicate(n2, Question(t2, << "B" >>)) :
        n1 \in 0..MaxFirstType, n2 \in 0..MaxSecondType,
        t1 \in {TypeName("MCQ")}, t2 \in {TypeName("FIB")} }
      \cup
    { Replicate(n2, Question(t2, << "B" >>)) \o Replicate(n1, Question(t1, << "a" >>)) :
        n1 \in 0..MaxFirstType, n2 \in 0..MaxSecondType,
        t1 \in {TypeName("MCQ")}, t2 \in {TypeName("FIB")} }

InitRest ==
    /\ pc = "start"
    /\ regen_pc = "off"
    /\ norm_pc = "off"
    /\ norm_text = << >>
    /\ norm_result = << >>
    /\ original_config = << >>
    /\ regeneration_map = << >>
    /\ filtered_config = << >>
    /\ fixed_results = << >>
    /\ generated_output = << >>
    /\ produced_for = << >>
    /\ grouped_questions = << >>
    /\ flow_stage = << >>
    /\ flow_questions = << >>
    /\ flow_prev_meta = << >>
    /\ raw_result = << >>
    /\ split_questions = << >>
    /\ validation_results = << >>
    /\ flow_result = << >>
    /\ model_calls = << >>
    /\ seq_pos = << 0, 0 >>
    /\ accumulated_metadata = EmptyMeta
    /\ metadata_after = << >>
    /\ pipeline_results = << >>

Init ==
    /\ questions_config \in PipelineInputs
    /\ core_skill_enabled \in BOOLEAN
    /\ InitRest

Next ==
    \/ Group
    \/ LoadTemplateFails
    \/ LaunchParallel
    \/ LaunchSequential
    \/ \E k \in DOMAIN flow_stage : FlowGenerate(k)
    \/ \E k \in DOMAIN flow_stage : FlowValidate(k)
    \/ GatherReturns
    \/ AwaitReturns
    \/ AwaitRaises

Spec == Init /\ [][Next]_vars

\* the packer on its own, over every request list up to MaxQuestions
InitPack ==
    /\ questions_config \in PackInputs
    /\ core_skill_enabled = FALSE
    /\ InitRest

NextPack == Group

SpecPack == InitPack /\ [][NextPack]_vars

\* the original lists of regenerations: requests of one type, those of
\* topic "a" around one of topic "B" and before another, as the run that
\* generated them left them (original_index assigned)
RegenConfigs ==
    { AssignIndices(Replicate(i, Question(TypeName("MCQ"), << "a" >>))
                    \o << Question(TypeName("MCQ"), << "B" >>) >>
                    \o Replicate(MaxRegenTopic - i, Question(TypeName("MCQ"), << "a" >>))
                    \o << Question(TypeName("MCQ"), << "B" >>) >>) :
        i \in 0..MaxRegenTopic }

\* the keys of regeneration maps: two batches of the type of the list and
\* one of a type the list does not have
RegenKeys ==
    { BatchKey(TypeName("MCQ"), 1), BatchKey(TypeName("MCQ"), 2),
      BatchKey(TypeName("FIB"), 1) }

\* the index lists: one index, the indices 2 and 4 in either order, and
\* every index from 1 up
IndexLists ==
    { << i >> : i \in 0..MaxIndex }
      \cup { << 2, 4 >>, << 4, 2 >> }
      \cup { [i \in 1..MaxIndex |-> i] }

RegenMaps ==
    { << Pair(k, l) >> : k \in RegenKeys, l \in IndexLists }
      \cup { m \in { << Pair(k1, << i1 >>), Pair(k2, << i2 >>) >> :
                         k1 \in RegenKeys, k2 \in RegenKeys,
                         i1 \in {1, 3}, i2 \in {1, 3} } :
                m[1].key # m[2].key }

InitRegen ==
    /\ original_config \in RegenConfigs
    /\ regeneration_map \in RegenMaps
    /\ core_skill_enabled \in BOOLEAN
    /\ regen_pc = "start"
    /\ pc = "idle"
    /\ norm_pc = "off"
    /\ norm_text = << >>
    /\ norm_result = << >>
    /\ questions_config = << >>
    /\ filtered_config = << >>
    /\ fixed_results = << >>
    /\ generated_output = StoredOutput(original_config)
    /\ produced_for = StoredFor(original_config)
    /\ grouped_questions = << >>
    /\ flow_stage = << >>
    /\ flow_questions = << >>
    /\ flow_prev_meta = << >>
    /\ raw_result = << >>
    /\ split_questions = << >>
    /\ validation_results = << >>
    /\ flow_result = << >>
    /\ model_calls = << >>
    /\ seq_pos = << 0, 0 >>
    /\ accumulated_metadata = EmptyMeta
    /\ metadata_after = << >>
    /\ pipeline_results = << >>

NextRegen ==
    \/ RegenFilter
    \/ RegenFixKeys
    \/ RegenRaises
    \/ MergeRegenerated
    \/ Next

\* a regeneration call, with the pipeline run it makes
SpecRegen == InitRegen /\ [][NextRegen]_vars

\* the tokens of the texts the normalizer is called with: plain text, a
\* fence, broken and undecodable JSON, and objects in the shapes a validator
\* answers with (a plain question, a renamed key with a double-encoded
\* value beside a summary field, a CORRECTED_ITEM wrapper, a fenced value
\* that starts an undecodable object, values that are objects or numbers),
\* a quoted JSON string and a bare "question2": "..." pair
NormTokens ==
    { WS, WORD("x"), FENCE, BRACE, DEEP, LONGINT,
      JSON(<< Pair(QKey(1), << WORD("x"), ESC >>) >>),
      JSON(<< Pair(NKey("Q", 2),
                   << JSON(<< Pair(QKey(2), << WORD("y") >>) >>) >>),
              Pair(MKey("batch_summary"), << WORD("s") >>) >>),
      JSON(<< Pair(MKey("CORRECTED_ITEM"),
                   << OBJECT(<< Pair(QKey(1), << WORD("z") >>) >>) >>) >>),
      JSON(<< Pair(QKey(1), << FENCE, WS, LONGINT, FENCE >>) >>),
      JSON(<< Pair(QKey(3),
                   << OBJECT(<< Pair(MKey("content"), << NUMBER(0) >>),
                                Pair(MKey("note"), << WORD("n") >>) >>) >>),
              Pair(QKey(4), << NUMBER(0) >>),
              Pair(QKey(5), << NUMBER(7) >>) >>),
      QUOTED(<< JSON(<< Pair(QKey(1), << WORD("x") >>) >>) >>),
      PAIRTEXT(2, << WORD("p"), ESC >>) }

NormTexts == SeqsUpTo(NormTokens, MaxTextLen)

InitNorm ==
    /\ norm_text \in NormTexts
    /\ norm_pc = "start"
    /\ norm_result = << >>
    /\ questions_config = << >>
    /\ core_skill_enabled = FALSE
    /\ pc = "idle"
    /\ regen_pc = "off"
    /\ original_config = << >>
    /\ regeneration_map = << >>
    /\ filtered_config = << >>
    /\ fixed_results = << >>
    /\ generated_output = << >>
    /\ produced_for = << >>
    /\ grouped_questions = << >>
    /\ flow_stage = << >>
    /\ flow_questions = << >>
    /\ flow_prev_meta = << >>
    /\ raw_result = << >>
    /\ split_questions = << >>
    /\ validation_results = << >>
    /\ flow_result = << >>
    /\ model_calls = << >>
    /\ seq_pos = << 0, 0 >>
    /\ accumulated_metadata = EmptyMeta
    /\ metadata_after = << >>
    /\ pipeline_results = << >>

NextNorm == NormalizeCall

\* calls of the normalizer, over every text up to MaxTextLen tokens
SpecNorm == InitNorm /\ [][NextNorm]_vars

(***************************************************************************)
(* Properties.                                                             *)
(***************************************************************************)
\* the batch number a key ends with, and the type before it
KeyNumber(k) == k[Len(k)].n

KeyBase(k) == SubSeq(k, 1, Len(k) - 1)

PositionsOfType(type) ==
    { i - 1 : i \in { j \in 1..Len(questions_config) :
                        QType(questions_config[j]) = type } }

\* C2: after grouping, the output has one list per type of the input, and
\* the list of a type holds every input position of that type exactly once
\* and nothing else.
IndexConservation ==
    pc # "start" =>
        /\ DOMAIN grouped_questions =
               { QType(questions_config[i]) : i \in 1..Len(questions_config) }
        /\ \A t \in DOMAIN grouped_questions :
             LET out == grouped_questions[t]
             IN /\ Len(out) = Cardinality(PositionsOfType(t))
                /\ { out[j].original_index : j \in 1..Len(out) } = PositionsOfType(t)
                /\ \A j \in 1..Len(out) :
                       out[j] = questions_config[out[j].original_index + 1]

\* a grouping of two types in which a type was re-packed
IndexConservationWitness ==
    /\ pc = "grouped"
    /\ Cardinality(DOMAIN grouped_questions) = 2
    /\ \E t \in DOMAIN grouped_questions :
         /\ grouped_questions[t] # OfType(questions_config, t)
         /\ Len(grouped_questions[t]) > DEFAULT_BATCH_SIZE

\* how many requests of a topic lie in naive batch b (0-based) of a list
CountInNaiveBatch(tq, topic, b) ==
    Cardinality({ i \in 1..Len(tq) :
                    /\ TopicKey(tq[i]) = topic
                    /\ (i - 1) \div DEFAULT_BATCH_SIZE = b })

NaiveBatchIndices(tq) == { (i - 1) \div DEFAULT_BATCH_SIZE : i \in 1..Len(tq) }

TopicCount(tq, topic) == Cardinality({ i \in 1..Len(tq) : TopicKey(tq[i]) = topic })

\* condition (a): at least 4 of the topic, and no naive batch holds 4 of it
LargeWithoutFullBatch(tq, topic) ==
    /\ TopicCount(tq, topic) >= DEFAULT_BATCH_SIZE
    /\ \A b \in NaiveBatchIndices(tq) :
           CountInNaiveBatch(tq, topic, b) # DEFAULT_BATCH_SIZE

\* condition (b): fewer than 4 of the topic, in more than one naive batch
SmallAndSplit(tq, topic) ==
    /\ TopicCount(tq, topic) < DEFAULT_BATCH_SIZE
    /\ Cardinality({ b \in NaiveBatchIndices(tq) :
                       CountInNaiveBatch(tq, topic, b) > 0 }) > 1

NoTopicTriggers(tq) ==
    \A topic \in TopicKeys(tq) :
        /\ ~LargeWithoutFullBatch(tq, topic)
        /\ ~SmallAndSplit(tq, topic)

\* C3: a type in which no topic satisfies condition (a) or (b) comes out of
\* the packer in its input order.
OrderPreservedWhenEfficient ==
    pc # "start" =>
        \A t \in DOMAIN grouped_questions :
            LET tq == OfType(questions_config, t)
            IN NoTopicTriggers(tq) => grouped_questions[t] = tq

\* a type kept in its input order over two naive batches although packing
\* would have reordered it
OrderPreservedWitness ==
    /\ pc = "grouped"
    /\ \E t \in DOMAIN grouped_questions :
         LET tq == OfType(questions_config, t)
         IN /\ NoTopicTriggers(tq)
            /\ Len(tq) > DEFAULT_BATCH_SIZE
            /\ Cardinality(TopicKeys(tq)) > 1
            /\ PriorityPack(tq) # tq
            /\ grouped_questions[t] = tq

\* C4: a batch whose generation call returned an error ends at once: its
\* payload carries the error in raw, validated has an error and empty
\* text, nothing was split or validated, and the only model call made for
\* the batch is the generation call.
GenerationErrorShortCircuits ==
    \A k \in DOMAIN raw_result :
        raw_result[k].error # NoError =>
            /\ flow_stage[k] \in {"done", "raised"}
            /\ k \notin DOMAIN split_questions
            /\ k \notin DOMAIN validation_results
            /\ model_calls[k] = 1
            /\ flow_stage[k] = "done" =>
                 /\ flow_result[k].payload.raw = raw_result[k]
                 /\ flow_result[k].payload.validated.error # NoError
                 /\ flow_result[k].payload.validated.text = << >>

\* a returned run with the entry of a batch whose generation failed
GenerationErrorWitness ==
    /\ pc = "returned"
    /\ \E k \in DOMAIN raw_result :
         /\ raw_result[k].error # NoError
         /\ k \in DOMAIN pipeline_results
         /\ pipeline_results[k].raw.error # NoError

\* the keys of the JSON object a payload's validated.text holds
ValidatedKeys(payload) == Keys(payload.validated.text[1].obj)

\* C5: for a batch whose generation succeeded, the keys of the final
\* validated.text are exactly the keys the Split step produced.
FinalKeysEqualSplitKeys ==
    \A k \in DOMAIN flow_result :
        raw_result[k].error = NoError =>
            ValidatedKeys(flow_result[k].payload) = Keys(split_questions[k])

\* a finished batch of two chunks, one validation failed, one gave prose
FinalKeysWitness ==
    \E k \in DOMAIN flow_result :
        /\ raw_result[k].error = NoError
        /\ Len(split_questions[k]) = 2
        /\ validation_results[k][1] = GeminiError
        /\ validation_results[k][2] = ValidatedProse

\* C6: when the validation call of a question returned an error, the value
\* stored for that question is the raw chunk the Split step produced.
ValidationErrorKeepsRawChunk ==
    \A k \in DOMAIN flow_result :
        raw_result[k].error = NoError =>
            \A i \in 1..Len(split_questions[k]) :
                validation_results[k][i].error # NoError =>
                    Get(flow_result[k].payload.validated.text[1].obj,
                        split_questions[k][i].key) = split_questions[k][i].val

\* C7: in parallel mode the pipeline returns only after every batch flow
\* has returned or raised, and every flow that returned has its own payload
\* in the result map, whatever the other flows did.
SiblingsUnaffected ==
    (~core_skill_enabled /\ pc = "returned" /\ ErrorKey \notin DOMAIN pipeline_results) =>
        \A k \in DOMAIN flow_stage :
            /\ flow_stage[k] \in {"done", "raised"}
            /\ flow_stage[k] = "done" =>
                 /\ k \in DOMAIN pipeline_results
                 /\ pipeline_results[k] = flow_result[k].payload

\* a parallel run in which one flow raised and two siblings have entries
SiblingsWitness ==
    /\ ~core_skill_enabled
    /\ pc = "returned"
    /\ \E k \in DOMAIN flow_stage : flow_stage[k] = "raised"
    /\ Cardinality(DOMAIN pipeline_results) = 2
    /\ Cardinality(DOMAIN flow_stage) = 3

\* C8: a batch whose flow raised has an entry in the returned map.
RaisedFlowHasEntry ==
    pc = "returned" =>
        \A k \in DOMAIN flow_stage :
            flow_stage[k] = "raised" => k \in DOMAIN pipeline_results

\* C9: no exception of a batch flow leaves process_batches_pipeline.
NoExceptionLeavesPipeline == pc # "raised"

\* new_value is old_value followed by ", " and something more
ExtendsWithComma(old_value, new_value) ==
    /\ Len(new_value) >= Len(old_value) + 2
    /\ SubSeq(new_value, 1, Len(old_value)) = old_value
    /\ new_value[Len(old_value) + 1] = WORD(",")
    /\ new_value[Len(old_value) + 2] = WS

\* C10: in sequential mode the accumulator after batch N > 1 of a type has
\* every key it had after batch N-1, each with its old value or with its
\* old value extended by ", " and a new part.
MetadataGrowth ==
    \A k \in DOMAIN metadata_after :
        KeyNumber(k) > 1 =>
            /\ BatchKey(KeyBase(k), KeyNumber(k) - 1) \in DOMAIN metadata_after
            /\ LET before == metadata_after[BatchKey(KeyBase(k), KeyNumber(k) - 1)]
                   after == metadata_after[k]
               IN \A key \in DOMAIN before :
                      /\ key \in DOMAIN after
                      /\ \/ after[key] = before[key]
                         \/ ExtendsWithComma(before[key], after[key])

\* a second batch that extended one value, kept another and added a key
MetadataGrowthWitness ==
    \E k \in DOMAIN metadata_after :
        /\ KeyNumber(k) = 2
        /\ LET before == metadata_after[BatchKey(KeyBase(k), 1)]
               after == metadata_after[k]
           IN /\ \E key \in DOMAIN before : ExtendsWithComma(before[key], after[key])
              /\ DOMAIN before # {}

\* a second batch whose blank value left the accumulated one as it was
\* while a key new to the accumulator was added
MetadataKeptWitness ==
    \E k \in DOMAIN metadata_after :
        /\ KeyNumber(k) = 2
        /\ LET before == metadata_after[BatchKey(KeyBase(k), 1)]
               after == metadata_after[k]
           IN /\ DOMAIN before # {}
              /\ DOMAIN after # DOMAIN before
              /\ \A key \in DOMAIN before : after[key] = before[key]

\* ceil(count / 4)
BatchCount(count) == (count + DEFAULT_BATCH_SIZE - 1) \div DEFAULT_BATCH_SIZE

\* { "T - Batch n" : T a type of the input, 1 <= n <= ceil(count(T)/4) }
ExpectedBatchKeys ==
    UNION { { BatchKey(t, n) : n \in 1..BatchCount(Cardinality(PositionsOfType(t))) } :
            t \in { QType(questions_config[i]) : i \in 1..Len(questions_config) } }

\* the keys of the batches in the order the scheduler forms them
FormedKeys ==
    LET tasks == AllBatchTasks(grouped_questions, Types)
    IN [i \in 1..Len(tasks) |-> tasks[i].batch_key]

NoFlowRaised == \A k \in DOMAIN flow_stage : flow_stage[k] # "raised"

ValidIndices(entry) ==
    { j \in 1..Len(entry.val) :
        IndexValid(original_config, entry.key, entry.val[j]) }

\* the regeneration returned a mapping of results, not an error mapping
RegenReturnedResults ==
    /\ regen_pc = "returned"
    /\ ErrorKey \notin DOMAIN fixed_results

\* C12: every key of the mapping a regeneration returns is a key of the
\* regeneration map, and when no flow raised every key of the regeneration
\* map that has a valid index has an entry.
RegenKeysAreMapKeys ==
    RegenReturnedResults =>
        /\ DOMAIN fixed_results \subseteq Keys(regeneration_map)
        /\ NoFlowRaised =>
               \A e \in 1..Len(regeneration_map) :
                   ValidIndices(regeneration_map[e]) # {} =>
                       regeneration_map[e].key \in DOMAIN fixed_results

\* the batches of a type in the run that generated from original_config
OriginalBatches(type) ==
    Batches(GroupQuestionsByTypeAndTopic(original_config), type)

\* (key, idx) names a question of the original run
NamesOriginalQuestion(key, idx) ==
    /\ Len(key) = 2
    /\ IsBatchSuffix(key[2])
    /\ KeyBase(key) \in { QType(original_config[i]) : i \in 1..Len(original_config) }
    /\ KeyNumber(key) \in 1..Len(OriginalBatches(KeyBase(key)))
    /\ idx \in 1..Len(OriginalBatches(KeyBase(key))[KeyNumber(key)])

\* the place in filtered_config of the copy made for index j of entry e:
\* the number of accepted indices up to and including it
SentPosition(e, j) ==
    Cardinality({ p \in (1..e) \X (1..MaxIndex) :
                    /\ p[2] <= Len(regeneration_map[p[1]].val)
                    /\ p[1] = e => p[2] <= j
                    /\ IndexValid(original_config, regeneration_map[p[1]].key,
                                  regeneration_map[p[1]].val[p[2]]) })

\* the request resent for index j of entry e
SentFor(e, j) == filtered_config[SentPosition(e, j)]

\* C13: for every (BatchKey, idx) of the regeneration map that names a
\* question of the original run, the request resent is the one that held
\* in-batch position idx of that batch in the original run, i.e. position
\* idx of the batch cut from the packer's output for the type.
RegenUsesPackerOrder ==
    regen_pc # "start" =>
        \A e \in 1..Len(regeneration_map) :
            \A j \in 1..Len(regeneration_map[e].val) :
                LET key == regeneration_map[e].key
                    idx == regeneration_map[e].val[j]
                IN NamesOriginalQuestion(key, idx) =>
                       /\ IndexValid(original_config, key, idx)
                       /\ SentFor(e, j).original_index =
                              OriginalBatches(KeyBase(key))[KeyNumber(key)][idx].original_index

NormalizerNeverRaises == norm_pc # "raised"

\* C16: a batch whose generation succeeded makes one validation call for
\* the whole batch, however many questions the split produced: two model
\* calls in total.
OneValidationCallPerBatch ==
    \A k \in DOMAIN split_questions : model_calls[k] = 2

\* the first place of a topic in the input list of a type
FirstPosition(tq, topic) ==
    CHOOSE i \in 1..Len(tq) :
        /\ TopicKey(tq[i]) = topic
        /\ \A j \in 1..(i - 1) : TopicKey(tq[j]) # topic

\* a batch of the output that is a full chunk of one topic
IsFullChunk(batch) ==
    /\ Len(batch) = DEFAULT_BATCH_SIZE
    /\ \A i \in 1..Len(batch) : TopicKey(batch[i]) = TopicKey(batch[1])

\* C17: in a type that was re-packed, the full single-topic chunks come out
\* in the order in which their topics first appear in the type's input.
FullChunksInFirstSeenOrder ==
    pc # "start" =>
        \A t \in DOMAIN grouped_questions :
            LET tq == OfType(questions_config, t)
                batches == SliceBatches(grouped_questions[t])
            IN NeedsOptimization(tq) =>
                   \A i \in 1..Len(batches), j \in 1..Len(batches) :
                       (i < j /\ IsFullChunk(batches[i]) /\ IsFullChunk(batches[j])) =>
                           FirstPosition(tq, TopicKey(batches[i][1]))
                               <= FirstPosition(tq, TopicKey(batches[j][1]))

\* C18: in a type that was re-packed, the requests outside the full chunks
\* come after every full chunk, in increasing original_index.
LeftoversInIndexOrder ==
    pc # "start" =>
        \A t \in DOMAIN grouped_questions :
            LET tq == OfType(questions_config, t)
                batches == SliceBatches(grouped_questions[t])
                rest == { b \in 1..Len(batches) : ~IsFullChunk(batches[b]) }
                leftovers == Concat([b \in 1..Len(batches) |->
                                 IF b \in rest THEN batches[b] ELSE << >>])
            IN NeedsOptimization(tq) =>
                   /\ \A b \in rest, c \in 1..Len(batches) :
                          IsFullChunk(batches[c]) => c < b
                   /\ \A i \in 1..Len(leftovers), j \in 1..Len(leftovers) :
                          i < j => leftovers[i].original_index
                                       < leftovers[j].original_index

\* C19: in the output of any type, the requests of a topic that are not in
\* a full chunk of that topic all sit in one batch.
SmallTopicInOneBatch ==
    pc # "start" =>
        \A t \in DOMAIN grouped_questions :
            LET batches == SliceBatches(grouped_questions[t])
            IN \A topic \in TopicKeys(grouped_questions[t]) :
                   Cardinality({ b \in 1..Len(batches) :
                       /\ ~IsFullChunk(batches[b])
                       /\ \E i \in 1..Len(batches[b]) :
                              TopicKey(batches[b][i]) = topic }) <= 1

\* C20: when a validation call of a batch returned an error, the payload
\* the flow returns still has every question of the split, and its
\* validated part carries a non-empty error.
ValidationFailureRecorded ==
    \A k \in DOMAIN flow_result :
        (/\ raw_result[k].error = NoError
         /\ \E i \in 1..Len(validation_results[k]) :
                validation_results[k][i].error # NoError) =>
            /\ ValidatedKeys(flow_result[k].payload) = Keys(split_questions[k])
            /\ flow_result[k].payload.validated.error # NoError

\* the batch before k in k's type
PreviousKey(k) == BatchKey(KeyBase(k), KeyNumber(k) - 1)

\* C21: in sequential mode a batch N+1 that has started has a batch N whose
\* flow is finished and whose metadata is merged, the accumulator after
\* that merge being what batch N+1 was started with; and a batch starts
\* only after every lower-numbered batch of its type has started.
SequentialBatchOrder ==
    /\ [](core_skill_enabled =>
            \A k \in DOMAIN flow_stage :
                KeyNumber(k) > 1 =>
                    /\ PreviousKey(k) \in DOMAIN flow_stage
                    /\ flow_stage[PreviousKey(k)] = "done"
                    /\ PreviousKey(k) \in DOMAIN metadata_after
                    /\ PreviousKey(k) \in DOMAIN pipeline_results
                    /\ flow_prev_meta[k] = metadata_after[PreviousKey(k)])
    /\ [][core_skill_enabled =>
            \A k \in DOMAIN flow_stage' \ DOMAIN flow_stage :
                /\ \A j \in DOMAIN flow_stage :
                       KeyBase(j) = KeyBase(k) => KeyNumber(j) < KeyNumber(k)
                /\ \A n \in 1..(KeyNumber(k) - 1) :
                       BatchKey(KeyBase(k), n) \in DOMAIN flow_stage]_vars

\* the second batch of a type is at its generation call, started with the
\* metadata the first batch returned
SequentialBatchOrderWitness ==
    /\ core_skill_enabled
    /\ \E k \in DOMAIN flow_stage :
           /\ KeyNumber(k) = 2
           /\ flow_stage[k] = "generating"
           /\ flow_prev_meta[k] # EmptyMeta

\* C22: in sequential mode the types run side by side: while the pipeline
\* is awaiting a batch, the first batch of every type has been started,
\* none waiting for a batch of another type.
TypesRunInParallel ==
    (core_skill_enabled /\ pc = "awaiting") =>
        \A i \in 1..Len(Types) : BatchKey(Types[i], 1) \in DOMAIN flow_stage

\* the accumulator a merged batch found: empty for the first batch of a
\* type, else the accumulator after the batch before it
AccumulatorBefore(k) ==
    IF KeyNumber(k) = 1 THEN EmptyMeta ELSE metadata_after[PreviousKey(k)]

\* the merge rule for batch k, a returned value counting as empty when
\* IsEmpty(value)
MergeRuleHolds(k, IsEmpty(_)) ==
    LET before == AccumulatorBefore(k)
        new == flow_result[k].metadata
        after == metadata_after[k]
    IN /\ DOMAIN after = DOMAIN before \cup DOMAIN new
       /\ \A key \in DOMAIN after :
              after[key] =
                  IF key \notin DOMAIN new THEN before[key]
                  ELSE IF key \notin DOMAIN before THEN new[key]
                  ELSE IF IsEmpty(new[key]) THEN before[key]
                  ELSE JoinValues(before[key], new[key])

\* C23, with "empty" read as "blank": a key the batch returned that is
\* already in the accumulator gets old + ", " + new when the new value has
\* a character that is not whitespace, and keeps its value when the new
\* value is empty or only whitespace; an absent key is inserted with the
\* new value; keys the batch did not return are unchanged.
MergeRuleBlankSkipped ==
    \A k \in DOMAIN metadata_after :
        MergeRuleHolds(k, LAMBDA value : Strip(value) = << >>)

\* a merge that appended to a key, and a merge that skipped a value of
\* whitespace for a key already present
MergeRuleWitness ==
    /\ \E k \in DOMAIN metadata_after :
           \E key \in DOMAIN AccumulatorBefore(k) \cap DOMAIN flow_result[k].metadata :
               /\ flow_result[k].metadata[key] # << >>
               /\ Strip(flow_result[k].metadata[key]) = << >>
               /\ metadata_after[k][key] = AccumulatorBefore(k)[key]
    /\ \E k \in DOMAIN metadata_after :
           \E key \in DOMAIN AccumulatorBefore(k) \cap DOMAIN flow_result[k].metadata :
               metadata_after[k][key] =
                   JoinValues(AccumulatorBefore(k)[key], flow_result[k].metadata[key])

\* C23 as stated: the value of a key already present is left unchanged
\* only when the new value is the empty string.
MergeRuleEmptySkipped ==
    \A k \in DOMAIN metadata_after :
        MergeRuleHolds(k, LAMBDA value : value = << >>)

RECURSIVE MergedOwnType(_, _)
\* the metadata returned by batches 1..n of a type, merged in batch order
MergedOwnType(type, n) ==
    IF n = 0 THEN EmptyMeta
    ELSE MergeMetadata(MergedOwnType(type, n - 1),
                       flow_result[BatchKey(type, n)].metadata)

\* C24: in sequential mode the prior metadata of batch n of a type is the
\* merge of what batches 1..n-1 of that type returned, so the first batch
\* of every type gets none and nothing of another type enters; in parallel
\* mode every batch gets none.
PriorMetadataFromOwnType ==
    \A k \in DOMAIN flow_prev_meta :
        /\ ~core_skill_enabled => flow_prev_meta[k] = EmptyMeta
        /\ KeyNumber(k) = 1 => flow_prev_meta[k] = EmptyMeta
        /\ core_skill_enabled =>
               flow_prev_meta[k] = MergedOwnType(KeyBase(k), KeyNumber(k) - 1)

\* the first batch of the second type has started after the first type
\* accumulated metadata over two batches
PriorMetadataWitness ==
    /\ core_skill_enabled
    /\ Len(Types) = 2
    /\ BatchKey(Types[2], 1) \in DOMAIN flow_prev_meta
    /\ BatchKey(Types[1], 2) \in DOMAIN metadata_after
    /\ metadata_after[BatchKey(Types[1], 2)] # EmptyMeta
    /\ flow_prev_meta[BatchKey(Types[1], 2)] # EmptyMeta

\* the batch the sequential loops turn to after batch k: the next batch of
\* k's type, else the first batch of the next type; none after the last
KeysAfter(k) ==
    LET ti == CHOOSE i \in 1..Len(Types) : Types[i] = KeyBase(k)
    IN IF KeyNumber(k) < Len(Batches(grouped_questions, Types[ti]))
       THEN { BatchKey(Types[ti], KeyNumber(k) + 1) }
       ELSE IF ti < Len(Types) THEN { BatchKey(Types[ti + 1], 1) }
       ELSE {}

\* the flow of batch k returned the payload of a failed generation
GenerationFailed(k) ==
    /\ k \in DOMAIN flow_result
    /\ raw_result[k].error # NoError

\* C25: in sequential mode a batch whose generation failed, once its flow
\* has returned to the scheduler, leaves the accumulator of its type as it
\* was and has its own entry; the scheduler goes on to the batch after it;
\* and a pipeline that returns has an entry for every batch of every type.
GenerationFailureConfined ==
    core_skill_enabled =>
        /\ \A k \in DOMAIN metadata_after :
               GenerationFailed(k) =>
                   /\ metadata_after[k] = AccumulatorBefore(k)
                   /\ k \in DOMAIN pipeline_results
                   /\ pipeline_results[k].raw.error # NoError
                   /\ \A next \in KeysAfter(k) :
                          /\ next \in DOMAIN flow_stage
                          /\ flow_prev_meta[next] \in
                                 { EmptyMeta, AccumulatorBefore(k) }
        /\ (pc = "returned" /\ ErrorKey \notin DOMAIN pipeline_results) =>
               DOMAIN pipeline_results = ExpectedBatchKeys

\* the pipeline returned after the second batch of a type failed to
\* generate, the first having left metadata, with a batch of another type
\* run after it
GenerationFailureWitness ==
    /\ core_skill_enabled
    /\ pc = "returned"
    /\ Len(Types) = 2
    /\ GenerationFailed(BatchKey(Types[1], 2))
    /\ metadata_after[BatchKey(Types[1], 1)] # EmptyMeta
    /\ BatchKey(Types[2], 1) \in DOMAIN pipeline_results
    /\ raw_result[BatchKey(Types[2], 1)].error = NoError

\* the keys of the mapping the normalizer makes of validated.text
NormalizedKeys(payload) ==
    Keys(NormalizeLlmOutputToQuestions(payload.validated.text).questions)

\* question1 .. questionN
QuestionKeysUpTo(n) == { QKey(i) : i \in 1..n }

\* C26: for a batch of N requests whose generation succeeded, the split
\* yields no key beyond questionN, and the keys of the normalized
\* validated.text are among question1 .. questionN.
KeysWithinBatchSize ==
    /\ \A k \in DOMAIN split_questions :
           Keys(split_questions[k]) \subseteq QuestionKeysUpTo(Len(flow_questions[k]))
    /\ \A k \in DOMAIN flow_result :
           raw_result[k].error = NoError =>
               NormalizedKeys(flow_result[k].payload)
                   \subseteq QuestionKeysUpTo(Len(flow_questions[k]))

\* the resent copy a request of the regeneration run was made from: the
\* run numbers its requests by their place in filtered_config
SourceOf(q) == filtered_config[q.original_index + 1]

\* the number of the batch of the original run that held the request a
\* resent copy was made of
OriginalBatchNumber(copy) ==
    LET batches == OriginalBatches(KeyBase(copy.type))
    IN CHOOSE n \in 1..Len(batches) :
           \E i \in 1..Len(batches[n]) :
               batches[n][i].original_index = copy.original_index

\* C27: in a regeneration run no batch holds requests of two different
\* batches of the original run; the requests selected under one BatchKey
\* are sent as one batch, the first and only one of the type named by that
\* key; and the type of every original request is left as it was.
RegenBatchesFollowOriginalBatches ==
    /\ (regen_pc \in {"running", "returned"} /\ pc \notin {"idle", "start"}) =>
           LET tasks == AllBatchTasks(grouped_questions, Types)
           IN /\ \A i \in 1..Len(tasks) :
                     \A q1 \in Range(tasks[i].questions),
                        q2 \in Range(tasks[i].questions) :
                         /\ KeyBase(SourceOf(q1).type) = KeyBase(SourceOf(q2).type)
                         /\ OriginalBatchNumber(SourceOf(q1))
                                = OriginalBatchNumber(SourceOf(q2))
              /\ \A e \in 1..Len(regeneration_map) :
                     ValidIndices(regeneration_map[e]) # {} =>
                         { tasks[i].batch_key : i \in { h \in 1..Len(tasks) :
                               tasks[h].questions[1].type = regeneration_map[e].key } }
                             = { BatchKey(regeneration_map[e].key, 1) }
    /\ \A i \in 1..Len(original_config) : FirstBatchAt(original_config[i].type) = 0

\* the questions of a stored batch as the renderer reads them
StoredQuestions(output, key) ==
    NormalizeLlmOutputToQuestions(output[key].validated.text).questions

\* entry e of the regeneration map names questions of a batch of the
\* stored output only, and the regeneration returned one question for
\* each of them
SpliceCase(e) ==
    LET key == regeneration_map[e].key
        indices == Range(regeneration_map[e].val)
    IN /\ key \in DOMAIN generated_output
       /\ indices \subseteq DOMAIN StoredFor(original_config)[key]
       /\ key \in SplicedKeys
       /\ NormalizedKeys(fixed_results[key]) = QuestionKeysUpTo(Cardinality(indices))

\* C28: after the splice, question i of K for every regenerated index i
\* holds a text of the regeneration, generated for the request that sat at
\* position i of K in the original run, whatever the order of the indices
\* in the map; every other question of K holds the text it held before.
SpliceRestoresPositions ==
    regen_pc = "merged" =>
        \A e \in 1..Len(regeneration_map) :
            SpliceCase(e) =>
                LET key == regeneration_map[e].key
                    indices == Range(regeneration_map[e].val)
                    before == StoredQuestions(StoredOutput(original_config), key)
                    after == StoredQuestions(generated_output, key)
                    new == NormalizeLlmOutputToQuestions(
                               fixed_results[key].validated.text).questions
                IN /\ Keys(after) = Keys(before)
                   /\ \A i \in indices :
                          /\ produced_for[key][i] = StoredFor(original_config)[key][i]
                          /\ \E new_k \in Keys(new) :
                                 Get(after, QKey(i)) = Get(new, new_k)
                   /\ \A j \in DOMAIN StoredFor(original_config)[key] \ indices :
                          /\ produced_for[key][j] = StoredFor(original_config)[key][j]
                          /\ Get(after, QKey(j)) = Get(before, QKey(j))

\* the selection loop accepted an index that names no question of the
\* batch of its key
AcceptedOutsideBatch(e, j) ==
    /\ j \in ValidIndices(regeneration_map[e])
    /\ ~NamesOriginalQuestion(regeneration_map[e].key, regeneration_map[e].val[j])

\* C29: an in-batch index that names no question of the batch of its key
\* (0, negative, or greater than the number of requests of that batch) is
\* rejected by the selection loop, so no request of another batch is resent
\* under the key; and when no index is accepted the call returns the error
\* mapping and process_batches_pipeline is not run.
InvalidIndexRejected ==
    regen_pc # "start" =>
        /\ \A e \in 1..Len(regeneration_map) :
               \A j \in 1..Len(regeneration_map[e].val) :
                   ~AcceptedOutsideBatch(e, j)
        /\ filtered_config = << >> =>
               /\ regen_pc \in {"returned", "failed"}
               /\ DOMAIN fixed_results = {ErrorKey}
               /\ pc = "idle"
               /\ model_calls = << >>

\* the key matches (question|q)<digits> whatever its case
MatchesQuestionPattern(key) ==
    key.p \in {"question", "Question", "QUESTION", "q", "Q"} /\ key.n > 0

\* the objects parsed from the text of the call, each followed by the
\* object it wraps as CORRECTED_ITEM
ParsedTargets ==
    AllTargets(ExtractJsonObjects(PreliminaryCleanup(norm_text)).questions)

\* the members of the parsed objects
ParsedMembers ==
    UNION { { << t, m >> : m \in 1..Len(ParsedTargets[t]) } :
                t \in 1..Len(ParsedTargets) }

\* C30: every key of the mapping the normalizer returns has the form
\* question<N>; when objects were parsed, every entry of the mapping is the
\* normalised value of a member whose key matches (question|q)<digits>
\* case-insensitively, stored under question<N> for the digits of that key
\* (Q2 becomes question2), so a member with another key, such as
\* batch_summary, gives the mapping neither a key nor a value; and every
\* matching member that has a value to store has its question<N> in the
\* mapping.
OnlyQuestionKeys ==
    norm_pc = "returned" =>
        LET questions == norm_result.questions
            Member(p) == ParsedTargets[p[1]][p[2]]
            Stored(p, k) == NormalizeValue(k, Member(p).val)
        IN /\ \A k \in Keys(questions) : k.p = "question" /\ k.n > 0
           /\ ParsedTargets # << >> =>
                  /\ \A k \in Keys(questions) :
                         \E p \in ParsedMembers :
                             /\ MatchesQuestionPattern(Member(p).key)
                             /\ Member(p).key.n = k.n
                             /\ Stored(p, k).set
                             /\ Get(questions, k) = Stored(p, k).value
                  /\ \A p \in ParsedMembers :
                         (/\ MatchesQuestionPattern(Member(p).key)
                          /\ Stored(p, QKey(Member(p).key.n)).set)
                             => QKey(Member(p).key.n) \in Keys(questions)

\* an object with the members Q2 and batch_summary was normalised: the
\* mapping holds question2 alone, with the text of Q2
OnlyQuestionKeysWitness ==
    /\ norm_pc = "returned"
    /\ \E t \in 1..Len(ParsedTargets) :
           /\ NKey("Q", 2) \in Keys(ParsedTargets[t])
           /\ MKey("batch_summary") \in Keys(ParsedTargets[t])
    /\ norm_result.questions = << Pair(QKey(2), << WORD("y") >>) >>

====
